---- MODULE Spec2Model ----
(***************************************************************************)
(* RuleGuardX: the firewall-policy risk-analysis engine                    *)
(* (src/engine/analyzer.ts) and the application state around it.           *)
(*                                                                         *)
(* Texts (addresses, port ranges) are sequences of one-character strings,  *)
(* so that trimming, case folding, splitting and parseInt are computed     *)
(* character by character, the way the JavaScript does.                    *)
(***************************************************************************)
EXTENDS Integers, Sequences, FiniteSets, TLC

VARIABLES rawRules, portSettings, results, pc, input, output,
          activeTab, filters, currentSettings, pending

\* the state of the application around the engine: the tab shown, the
\* filter of the findings list, the list edited on the settings tab and the
\* rows of an import that was launched and has not arrived yet
appVars == <<activeTab, filters, currentSettings, pending>>

vars == <<rawRules, portSettings, results, pc, input, output, appVars>>

(***************************************************************************)
(* JavaScript string primitives                                            *)
(***************************************************************************)

\* The result of parseInt is <<n>> for the number n and <<>> for NaN
NaN == <<>>

isNaN(x) == x = NaN

Num(x) == x[1]

Digits == {"0", "1", "2", "3", "4", "5", "6", "7", "8", "9"}

DigitVal(c) ==
    CASE c = "0" -> 0 [] c = "1" -> 1 [] c = "2" -> 2 [] c = "3" -> 3
      [] c = "4" -> 4 [] c = "5" -> 5 [] c = "6" -> 6 [] c = "7" -> 7
      [] c = "8" -> 8 [] c = "9" -> 9

\* the white space String.prototype.trim, parseInt and the \s class skip
IsSpace(c) == c \in {" ", "\t", "\n", "\r"}

\* String.prototype.toLowerCase on one character
LowerChar(c) ==
    CASE c = "A" -> "a" [] c = "B" -> "b" [] c = "C" -> "c" [] c = "D" -> "d"
      [] c = "E" -> "e" [] c = "F" -> "f" [] c = "G" -> "g" [] c = "H" -> "h"
      [] c = "I" -> "i" [] c = "J" -> "j" [] c = "K" -> "k" [] c = "L" -> "l"
      [] c = "M" -> "m" [] c = "N" -> "n" [] c = "O" -> "o" [] c = "P" -> "p"
      [] c = "Q" -> "q" [] c = "R" -> "r" [] c = "S" -> "s" [] c = "T" -> "t"
      [] c = "U" -> "u" [] c = "V" -> "v" [] c = "W" -> "w" [] c = "X" -> "x"
      [] c = "Y" -> "y" [] c = "Z" -> "z" [] OTHER -> c

toLowerCase(s) == [i \in 1..Len(s) |-> LowerChar(s[i])]

RECURSIVE TrimLeft(_)
TrimLeft(s) ==
    IF s # <<>> /\ IsSpace(Head(s)) THEN TrimLeft(Tail(s)) ELSE s

RECURSIVE TrimRight(_)
TrimRight(s) ==
    IF s # <<>> /\ IsSpace(s[Len(s)]) THEN TrimRight(SubSeq(s, 1, Len(s) - 1)) ELSE s

trim(s) == TrimRight(TrimLeft(s))

\* String.prototype.includes for a one-character needle
includes(s, c) == \E i \in 1..Len(s) : s[i] = c

\* String.prototype.split(sep) for a one-character separator: the pieces
\* between the separators, empty pieces kept
RECURSIVE SplitFrom(_, _, _)
SplitFrom(s, sep, cur) ==
    IF s = <<>> THEN <<cur>>
    ELSE IF Head(s) = sep THEN <<cur>> \o SplitFrom(Tail(s), sep, <<>>)
    ELSE SplitFrom(Tail(s), sep, Append(cur, Head(s)))

split(s, sep) == SplitFrom(s, sep, <<>>)

\* split(/[,\s]+/): a run of commas and white space is one separator; a
\* leading or trailing run leaves an empty piece at that end
IsListSep(c) == c = "," \/ IsSpace(c)

RECURSIVE SkipSeps(_)
SkipSeps(s) == IF s # <<>> /\ IsListSep(Head(s)) THEN SkipSeps(Tail(s)) ELSE s

RECURSIVE SplitListFrom(_, _)
SplitListFrom(s, cur) ==
    IF s = <<>> THEN <<cur>>
    ELSE IF IsListSep(Head(s)) THEN <<cur>> \o SplitListFrom(SkipSeps(s), <<>>)
    ELSE SplitListFrom(Tail(s), Append(cur, Head(s)))

splitList(s) == SplitListFrom(s, <<>>)

\* the longest prefix of digits, as a number (acc the value so far)
RECURSIVE DigitsValue(_, _)
DigitsValue(s, acc) ==
    IF s # <<>> /\ Head(s) \in Digits
    THEN DigitsValue(Tail(s), 10 * acc + DigitVal(Head(s)))
    ELSE acc

\* parseInt(s, 10): leading white space skipped, an optional sign, then the
\* longest run of digits; NaN when no digit follows
parseInt(s) ==
    LET t    == TrimLeft(s)
        neg  == t # <<>> /\ Head(t) = "-"
        sgn  == t # <<>> /\ Head(t) \in {"-", "+"}
        body == IF sgn THEN Tail(t) ELSE t
    IN  IF body = <<>> \/ Head(body) \notin Digits THEN NaN
        ELSE IF neg THEN <<0 - DigitsValue(body, 0)>>
        ELSE <<DigitsValue(body, 0)>>

(***************************************************************************)
(* Texts used as inputs                                                    *)
(***************************************************************************)
T_empty == <<>>
T_any == <<"a", "n", "y">>
T_ANY == <<"A", "N", "Y">>
T_anySp == <<" ", "a", "n", "y">>
T_all == <<"a", "l", "l">>
T_star == <<"*">>
T_zero == <<"0", ".", "0", ".", "0", ".", "0", "/", "0">>
T_net8 == <<"1", "0", ".", "0", ".", "0", ".", "0", "/", "8">>
T_net9 == <<"1", "0", ".", "0", ".", "0", ".", "0", "/", "9">>
T_net16 == <<"1", "0", ".", "0", ".", "0", ".", "0", "/", "1", "6">>
T_net17 == <<"1", "0", ".", "0", ".", "0", ".", "0", "/", "1", "7">>
T_net22 == <<"1", "0", ".", "0", ".", "0", ".", "0", "/", "2", "2">>
T_net23 == <<"1", "0", ".", "0", ".", "0", ".", "0", "/", "2", "3">>
T_net24 == <<"1", "0", ".", "0", ".", "0", ".", "0", "/", "2", "4">>
T_net1 == <<"1", "0", ".", "0", ".", "0", ".", "0", "/", "1">>
T_netBad == <<"1", "0", ".", "0", ".", "0", ".", "0", "/", "x", "x">>
T_netNeg == <<"1", "0", ".", "0", ".", "0", ".", "0", "/", "-", "5">>
T_net64 == <<"1", "0", ".", "0", ".", "0", ".", "0", "/", "6", "4">>
T_host == <<"1", "0", ".", "0", ".", "0", ".", "5">>
T_22 == <<"2", "2">>
T_443 == <<"4", "4", "3">>
T_443Sp == <<"4", "4", "3", " ">>
T_445 == <<"4", "4", "5">>
T_80_443 == <<"8", "0", ",", "4", "4", "3">>
T_80_80 == <<"8", "0", ",", " ", "8", "0">>
T_range == <<"2", "1", "-", "2", "3">>
T_full == <<"0", "-", "6", "5", "5", "3", "5">>
T_abc == <<"a", "b", "c">>
T_abc445 == <<"a", "b", "c", ",", "4", "4", "5">>
T_neg1 == <<"-", "1">>
T_1024 == <<"1", "0", "2", "4">>
T_slash == <<"/">>
T_dash == <<"-">>
T_open == <<"5", "-">>
T_back == <<"2", "3", "-", "2", "1">>
T_seps == <<",", " ", ",">>
T_huge == <<"0", "-", "9", "9", "9", "9", "9", "9", "9", "9", "9", "9", "9">>
T_80huge == <<"8", "0", ",", "1", "-", "9", "9", "9", "9", "9", "9", "9", "9", "9", "9", "9">>

(***************************************************************************)
(* Scope and port parsers (analyzer.ts)                                    *)
(***************************************************************************)

\* getCidrSize: the prefix length of an address text
getCidrSize(addr) ==
    LET clean == toLowerCase(trim(addr))
    IN  IF clean \in {T_any, T_all, T_zero, T_star} THEN 0
        ELSE IF includes(clean, "/")
        THEN LET parts == split(clean, "/")
                 cidr  == parseInt(parts[2])
             IN  IF isNaN(cidr) THEN 32 ELSE Num(cidr)
        ELSE 32

\* the wildcard sentinel parsePorts returns for "all ports"
AnyPort == -1

\* the integers start..end in ascending order (the for loop of parsePorts)
RangeSeq(start, end) ==
    IF start > end THEN <<>> ELSE [i \in 1..(end - start + 1) |-> start + i - 1]

\* Fault variant of PortToken: a token that starts with "-" is read as one
\* signed number
PortToken_signed(p) ==
    IF includes(p, "-") /\ Head(p) # "-"
    THEN LET sides == split(p, "-")
             start == parseInt(trim(sides[1]))
             end   == parseInt(trim(sides[2]))
         IN  IF ~isNaN(start) /\ ~isNaN(end) THEN RangeSeq(Num(start), Num(end)) ELSE <<>>
    ELSE LET parsed == parseInt(p)
         IN  IF ~isNaN(parsed) THEN <<Num(parsed)>> ELSE <<>>

\* the contribution of one token of the port list
PortToken(p) ==
    IF includes(p, "-")
    THEN LET sides == split(p, "-")
             start == parseInt(trim(sides[1]))
             end   == parseInt(trim(sides[2]))
         IN  IF ~isNaN(start) /\ ~isNaN(end) THEN RangeSeq(Num(start), Num(end)) ELSE <<>>
    ELSE LET parsed == parseInt(p)
         IN  IF ~isNaN(parsed) THEN <<Num(parsed)>> ELSE <<>>

\* Fault variant of ConcatTokens: the first token that contributes nothing
\* ends the list
RECURSIVE ConcatTokens_stopAtBad(_)
ConcatTokens_stopAtBad(parts) ==
    IF parts = <<>> \/ PortToken(Head(parts)) = <<>> THEN <<>>
    ELSE PortToken(Head(parts)) \o ConcatTokens_stopAtBad(Tail(parts))

RECURSIVE ConcatTokens(_)
ConcatTokens(parts) ==
    IF parts = <<>> THEN <<>>
    ELSE PortToken(Head(parts)) \o ConcatTokens(Tail(parts))

\* Fault variant of parsePorts: a missing port text is read as all ports
parsePorts_emptyIsAny(portStr) ==
    IF portStr = <<>> THEN <<AnyPort>>
    ELSE LET clean == toLowerCase(trim(portStr))
         IN  IF clean \in {T_any, T_all, T_star, T_full} THEN <<AnyPort>>
             ELSE ConcatTokens(splitList(clean))

\* parsePorts: the list of ports of a port text
parsePorts(portStr) ==
    IF portStr = <<>> THEN <<>>
    ELSE LET clean == toLowerCase(trim(portStr))
         IN  IF clean \in {T_any, T_all, T_star, T_full} THEN <<AnyPort>>
             ELSE ConcatTokens(splitList(clean))

(***************************************************************************)
(* The array that the for loop of parsePorts fills. An array holds at most *)
(* 2^32 - 1 elements: a push beyond that raises a RangeError (and memory   *)
(* runs out long before), so a call whose loop has more rounds than that   *)
(* returns nothing. The numbers of such a range are beyond the integers of *)
(* the model checker and are compared by their digits.                     *)
(***************************************************************************)
\* the largest array length, 2^32 - 1, as a text
T_maxLength == <<"4", "2", "9", "4", "9", "6", "7", "2", "9", "5">>

RECURSIVE DigitRun(_)
DigitRun(s) == IF s # <<>> /\ Head(s) \in Digits THEN <<Head(s)>> \o DigitRun(Tail(s)) ELSE <<>>

RECURSIVE StripZeros(_)
StripZeros(s) == IF s # <<>> /\ Head(s) = "0" THEN StripZeros(Tail(s)) ELSE s

\* the digits that parseInt reads from a text (none when it returns NaN)
ReadDigits(s) ==
    LET t == TrimLeft(s)
    IN  DigitRun(IF t # <<>> /\ Head(t) \in {"-", "+"} THEN Tail(t) ELSE t)

\* the for loop of a range token has more rounds than an array has room:
\* start is below 10^9 (fewer digits than the largest length) and end is
\* 10^10 or more (more digits than the largest length)
LoopOverflows(p) ==
    /\ includes(p, "-")
    /\ LET sides == split(p, "-")
           start == ReadDigits(trim(sides[1]))
           end   == ReadDigits(trim(sides[2]))
       IN  /\ start # <<>> /\ end # <<>>
           /\ Len(StripZeros(start)) < Len(T_maxLength)
           /\ Len(StripZeros(end)) > Len(T_maxLength)

\* parsePorts raises on this port text
PushOverflows(portStr) ==
    /\ portStr # <<>>
    /\ LET clean == toLowerCase(trim(portStr))
       IN  /\ clean \notin {T_any, T_all, T_star, T_full}
           /\ \E k \in 1..Len(splitList(clean)) : LoopOverflows(splitList(clean)[k])

\* analyzeRules raises on this rule list: parsePorts is called on the
\* destination port text of every rule
Raises(rules) == \E i \in 1..Len(rules) : PushOverflows(rules[i].destinationPort)

(***************************************************************************)
(* analyzeRules (analyzer.ts)                                              *)
(*                                                                         *)
(* A rule is a record [id, source, destination, sourcePort,                *)
(* destinationPort, protocol, action, enabled]; a port setting is a record *)
(* [port, criticality, enabled]; a finding is a record [ruleId, category,  *)
(* score, severity, port, ref], where port is the port an Insecure Port    *)
(* finding's explanation names and ref the rule id a hygiene finding's     *)
(* explanation names. The explanation and recommendation texts are fixed   *)
(* per tier and are left out.                                              *)
(***************************************************************************)
NoPort == AnyPort - 1
NoRef == 0

Finding(rule, category, score, severity, port, ref) ==
    [ruleId |-> rule.id, category |-> category, score |-> score,
     severity |-> severity, port |-> port, ref |-> ref]

\* Fault variant of activeInsecurePorts: the enabled flag is not filtered
activeInsecurePorts_anyEntry(settings, p) ==
    LET hits == {i \in 1..Len(settings) : settings[i].port = p}
    IN  IF hits = {} THEN <<>>
        ELSE <<settings[CHOOSE i \in hits : \A j \in hits : j <= i]>>

\* activeInsecurePorts.get(p): the enabled settings in list order, a later
\* entry of the same port replacing an earlier one; <<>> when there is none
activeInsecurePorts(settings, p) ==
    LET hits == {i \in 1..Len(settings) : settings[i].enabled /\ settings[i].port = p}
    IN  IF hits = {} THEN <<>>
        ELSE <<settings[CHOOSE i \in hits : \A j \in hits : j <= i]>>

isAllow(rule) == rule.action = "ALLOW"
hasAnyPort(rule) == \E i \in 1..Len(parsePorts(rule.destinationPort)) :
                        parsePorts(rule.destinationPort)[i] = AnyPort
isAnySource(rule) == getCidrSize(rule.source) = 0
isAnyDest(rule) == getCidrSize(rule.destination) = 0
isAnyProto(rule) == rule.protocol = "ANY"

\* twice anyDimensions (the protocol weighs 0.5 in the code), so that the
\* sum stays an integer
anyDimensions2(rule) ==
    (IF isAnySource(rule) THEN 2 ELSE 0) + (IF isAnyDest(rule) THEN 2 ELSE 0)
  + (IF hasAnyPort(rule) THEN 2 ELSE 0) + (IF isAnyProto(rule) THEN 1 ELSE 0)

\* Fault variant of IsAnyAny: the protocol weighs as much as half a dimension
\* more, so that two universal dimensions and protocol ANY reach the tier
IsAnyAny_protoCounts(rule) == anyDimensions2(rule) >= 5

\* anyDimensions >= 3
IsAnyAny(rule) == anyDimensions2(rule) >= 6

\* Fault variant of ExposureFindings: the destination tier is tested before
\* the source tier
ExposureFindings_destFirst(rule) ==
    IF isAllow(rule) /\ (isAnySource(rule) \/ isAnyDest(rule) \/ isAnyProto(rule) \/ hasAnyPort(rule))
    THEN IF anyDimensions2(rule) >= 6
         THEN <<Finding(rule, "Excessive Exposure", 100, "CRITICAL", NoPort, NoRef)>>
         ELSE IF isAnyDest(rule)
         THEN <<Finding(rule, "Excessive Exposure", 80, "HIGH", NoPort, NoRef)>>
         ELSE IF isAnySource(rule)
         THEN <<Finding(rule, "Excessive Exposure", 85, "HIGH", NoPort, NoRef)>>
         ELSE <<Finding(rule, "Excessive Exposure", 60, "MEDIUM", NoPort, NoRef)>>
    ELSE <<>>

\* 1. ANY rule logic
ExposureFindings(rule) ==
    IF isAllow(rule) /\ (isAnySource(rule) \/ isAnyDest(rule) \/ isAnyProto(rule) \/ hasAnyPort(rule))
    THEN IF IsAnyAny(rule)
         THEN <<Finding(rule, "Excessive Exposure", 100, "CRITICAL", NoPort, NoRef)>>
         ELSE IF isAnySource(rule)
         THEN <<Finding(rule, "Excessive Exposure", 85, "HIGH", NoPort, NoRef)>>
         ELSE IF isAnyDest(rule)
         THEN <<Finding(rule, "Excessive Exposure", 80, "HIGH", NoPort, NoRef)>>
         ELSE <<Finding(rule, "Excessive Exposure", 60, "MEDIUM", NoPort, NoRef)>>
    ELSE <<>>

\* Fault variant of SubnetFindings: the isAllow guard is missing
SubnetFindings_anyAction(rule) ==
    LET srcCidr == getCidrSize(rule.source)
    IN  IF srcCidr <= 16 /\ srcCidr > 0
        THEN <<Finding(rule, "Subnet Scope", 80,
                       IF srcCidr <= 8 THEN "CRITICAL" ELSE "HIGH", NoPort, NoRef)>>
        ELSE IF srcCidr >= 17 /\ srcCidr <= 22
        THEN <<Finding(rule, "Subnet Scope", 60, "HIGH", NoPort, NoRef)>>
        ELSE <<>>

\* Fault variant of SubnetFindings: the CRITICAL boundary is off by one
SubnetFindings_offByOne(rule) ==
    LET srcCidr == getCidrSize(rule.source)
    IN  IF ~isAllow(rule) THEN <<>>
        ELSE IF srcCidr <= 16 /\ srcCidr > 0
        THEN <<Finding(rule, "Subnet Scope", 80,
                       IF srcCidr < 8 THEN "CRITICAL" ELSE "HIGH", NoPort, NoRef)>>
        ELSE IF srcCidr >= 17 /\ srcCidr <= 22
        THEN <<Finding(rule, "Subnet Scope", 60, "HIGH", NoPort, NoRef)>>
        ELSE <<>>

\* 2. Subnet scope analysis
SubnetFindings(rule) ==
    LET srcCidr == getCidrSize(rule.source)
    IN  IF ~isAllow(rule) THEN <<>>
        ELSE IF srcCidr <= 16 /\ srcCidr > 0
        THEN <<Finding(rule, "Subnet Scope", 80,
                       IF srcCidr <= 8 THEN "CRITICAL" ELSE "HIGH", NoPort, NoRef)>>
        ELSE IF srcCidr >= 17 /\ srcCidr <= 22
        THEN <<Finding(rule, "Subnet Scope", 60, "HIGH", NoPort, NoRef)>>
        ELSE <<>>

\* the score of an Insecure Port finding
PortScore(criticality) ==
    IF criticality = "CRITICAL" THEN 100 ELSE IF criticality = "HIGH" THEN 90 ELSE 60

\* the finding of one port of the list
PortFinding(rule, settings, p) ==
    IF p = AnyPort THEN <<>>
    ELSE LET setting == activeInsecurePorts(settings, p)
         IN  IF setting # <<>>
             THEN <<Finding(rule, "Insecure Port", PortScore(setting[1].criticality),
                            setting[1].criticality, p, NoRef)>>
             ELSE <<>>

RECURSIVE PortFindingsOf(_, _, _)
PortFindingsOf(rule, settings, ports) ==
    IF ports = <<>> THEN <<>>
    ELSE PortFinding(rule, settings, Head(ports)) \o PortFindingsOf(rule, settings, Tail(ports))

\* 3. Insecure ports
PortFindings(rule, settings) ==
    IF isAllow(rule) THEN PortFindingsOf(rule, settings, parsePorts(rule.destinationPort))
    ELSE <<>>

\* Fault variant of RuleFindings: the latent-risk entry is pushed to the
\* findings list as well
RuleFindings_latentToo(rule, settings) ==
    ExposureFindings(rule) \o SubnetFindings(rule) \o PortFindings(rule, settings)
     \o (IF ~rule.enabled /\ isAllow(rule) /\ (getCidrSize(rule.source) = 0 \/ hasAnyPort(rule))
         THEN <<Finding(rule, "Policy Hygiene", 40, "LOW", NoPort, NoRef)>>
         ELSE <<>>)

\* Fault variant of RuleFindings: a disabled rule pushes nothing
RuleFindings_enabledOnly(rule, settings) ==
    IF rule.enabled
    THEN ExposureFindings(rule) \o SubnetFindings(rule) \o PortFindings(rule, settings)
    ELSE <<>>

\* what one rule pushes to findings, in order
RuleFindings(rule, settings) ==
    ExposureFindings(rule) \o SubnetFindings(rule) \o PortFindings(rule, settings)

\* Fault variant of Shadows: a disabled earlier rule shadows too
Shadows_disabledToo(prev, rule) ==
    /\ prev.action = rule.action
    /\ (prev.source = rule.source \/ toLowerCase(prev.source) = T_any)
    /\ (prev.destination = rule.destination \/ toLowerCase(prev.destination) = T_any)
    /\ (prev.protocol = rule.protocol \/ prev.protocol = "ANY")
    /\ (prev.destinationPort = rule.destinationPort \/ toLowerCase(prev.destinationPort) = T_any)

\* the predicate of the shadowedBy scan
Shadows(prev, rule) ==
    /\ prev.enabled
    /\ prev.action = rule.action
    /\ (prev.source = rule.source \/ toLowerCase(prev.source) = T_any)
    /\ (prev.destination = rule.destination \/ toLowerCase(prev.destination) = T_any)
    /\ (prev.protocol = rule.protocol \/ prev.protocol = "ANY")
    /\ (prev.destinationPort = rule.destinationPort \/ toLowerCase(prev.destinationPort) = T_any)

\* Fault variant of Conflicts: the port texts are compared after trimming
Conflicts_trimmed(prev, rule) ==
    /\ prev.enabled
    /\ prev.action # rule.action
    /\ prev.source = rule.source
    /\ prev.destination = rule.destination
    /\ trim(prev.destinationPort) = trim(rule.destinationPort)

\* the predicate of the conflicting scan
Conflicts(prev, rule) ==
    /\ prev.enabled
    /\ prev.action # rule.action
    /\ prev.source = rule.source
    /\ prev.destination = rule.destination
    /\ prev.destinationPort = rule.destinationPort

\* Fault variant of shadowedBy: a membership test over the whole list in
\* place of the scan of the preceding rules
shadowedBy_anyIndex(rules, i) ==
    LET hits == {j \in (1..Len(rules)) \ {i} : Shadows(rules[j], rules[i])}
    IN  IF hits = {} THEN 0 ELSE CHOOSE j \in hits : \A k \in hits : j <= k

\* Fault variant of conflicting: the last match is taken, not the first
conflicting_last(rules, i) ==
    LET hits == {j \in 1..(i - 1) : Conflicts(rules[j], rules[i])}
    IN  IF hits = {} THEN 0 ELSE CHOOSE j \in hits : \A k \in hits : j >= k

\* rules.slice(0, index).find(...): the position (1-based) of the first rule
\* before position i that satisfies the predicate, 0 when there is none
shadowedBy(rules, i) ==
    LET hits == {j \in 1..(i - 1) : Shadows(rules[j], rules[i])}
    IN  IF hits = {} THEN 0 ELSE CHOOSE j \in hits : \A k \in hits : j <= k

conflicting(rules, i) ==
    LET hits == {j \in 1..(i - 1) : Conflicts(rules[j], rules[i])}
    IN  IF hits = {} THEN 0 ELSE CHOOSE j \in hits : \A k \in hits : j <= k

\* Fault variant of LatentRisk: the enabled flag is not looked at
LatentRisk_enabledToo(rule) ==
    isAllow(rule) /\ (getCidrSize(rule.source) = 0 \/ hasAnyPort(rule))

\* the latent-risk test of a disabled rule
LatentRisk(rule) ==
    ~rule.enabled /\ isAllow(rule) /\ (getCidrSize(rule.source) = 0 \/ hasAnyPort(rule))

\* Fault variant of RuleHygiene: the conflict entry is pushed before the
\* shadowing entry
RuleHygiene_conflictFirst(rules, i) ==
    LET rule == rules[i]
        s    == shadowedBy(rules, i)
        c    == conflicting(rules, i)
    IN  (IF c # 0 /\ rule.enabled
         THEN <<Finding(rule, "Correlation Error", 50, "MEDIUM", NoPort, rules[c].id)>>
         ELSE <<>>)
     \o (IF s # 0 /\ rule.enabled
         THEN <<Finding(rule, "Policy Hygiene", 20, "INFORMATIONAL", NoPort, rules[s].id)>>
         ELSE <<>>)
     \o (IF LatentRisk(rule)
         THEN <<Finding(rule, "Policy Hygiene", 40, "LOW", NoPort, NoRef)>>
         ELSE <<>>)

\* 4. Policy hygiene and correlation: what the rule at position i pushes to
\* hygiene, in order
RuleHygiene(rules, i) ==
    LET rule == rules[i]
        s    == shadowedBy(rules, i)
        c    == conflicting(rules, i)
    IN  (IF s # 0 /\ rule.enabled
         THEN <<Finding(rule, "Policy Hygiene", 20, "INFORMATIONAL", NoPort, rules[s].id)>>
         ELSE <<>>)
     \o (IF c # 0 /\ rule.enabled
         THEN <<Finding(rule, "Correlation Error", 50, "MEDIUM", NoPort, rules[c].id)>>
         ELSE <<>>)
     \o (IF LatentRisk(rule)
         THEN <<Finding(rule, "Policy Hygiene", 40, "LOW", NoPort, NoRef)>>
         ELSE <<>>)

RECURSIVE AllFindings(_, _, _)
AllFindings(rules, settings, i) ==
    IF i > Len(rules) THEN <<>>
    ELSE RuleFindings(rules[i], settings) \o AllFindings(rules, settings, i + 1)

RECURSIVE AllHygiene(_, _)
AllHygiene(rules, i) ==
    IF i > Len(rules) THEN <<>>
    ELSE RuleHygiene(rules, i) \o AllHygiene(rules, i + 1)

CountSeverity(fs, sev) == Cardinality({i \in 1..Len(fs) : fs[i].severity = sev})

RECURSIVE SumScores(_)
SumScores(fs) == IF fs = <<>> THEN 0 ELSE Head(fs).score + SumScores(Tail(fs))

\* Math.round(sum / n) for sum >= 0 and n > 0: halves round up
RoundDiv(sum, n) == (2 * sum + n) \div (2 * n)

Summary(rules, findings) ==
    [totalRules       |-> Len(rules),
     enabledRules     |-> Cardinality({i \in 1..Len(rules) : rules[i].enabled}),
     criticalFindings |-> CountSeverity(findings, "CRITICAL"),
     highFindings     |-> CountSeverity(findings, "HIGH"),
     mediumFindings   |-> CountSeverity(findings, "MEDIUM"),
     lowFindings      |-> CountSeverity(findings, "LOW"),
     averageRiskScore |-> IF Len(findings) > 0
                          THEN RoundDiv(SumScores(findings), Len(findings)) ELSE 0]

\* Fault variant of analyzeRules: the summary is taken over the findings and
\* the hygiene entries together
analyzeRules_hygieneCounted(rules, settings) ==
    LET findings == AllFindings(rules, settings, 1)
        hygiene  == AllHygiene(rules, 1)
    IN  [rules |-> rules, findings |-> findings, hygiene |-> hygiene,
         summary |-> Summary(rules, findings \o hygiene)]

analyzeRules(rules, settings) ==
    LET findings == AllFindings(rules, settings, 1)
        hygiene  == AllHygiene(rules, 1)
    IN  [rules |-> rules, findings |-> findings, hygiene |-> hygiene,
         summary |-> Summary(rules, findings)]

(***************************************************************************)
(* Inputs                                                                  *)
(***************************************************************************)
Rule(id, en, act, src, dst, sport, dport, proto) ==
    [id |-> id, enabled |-> en, action |-> act, source |-> src, destination |-> dst,
     sourcePort |-> sport, destinationPort |-> dport, protocol |-> proto]

Setting(port, crit, en) == [port |-> port, criticality |-> crit, enabled |-> en]

\* Uploader.processData numbers the rules of an import by row when the CSV
\* names no id column: the rule at position i has id i
WithIds(rs) == [i \in 1..Len(rs) |-> [rs[i] EXCEPT !.id = i]]

Actions == {"ALLOW", "DENY", "OTHER"}

\* one text of every scope class: universal tokens, the boundaries of the
\* subnet tiers, a host, and prefixes that do not parse or lie outside 0..32
WideSources == {T_any, T_ANY, T_zero, T_net1, T_net8, T_net9, T_net16, T_net17,
                T_net22, T_net23, T_host, T_netBad, T_netNeg, T_net64}

WideDestinations == {T_any, T_host}

WidePorts == {T_any, T_anySp, T_all, T_star, T_full, T_445, T_80_443, T_80_80, T_range,
              T_empty, T_neg1}

WideProtocols == {"ANY", "TCP"}

\* the rules of the single-rule inputs
WidePool == {Rule(1, en, act, src, dst, T_any, dport, proto) :
                en \in BOOLEAN, act \in Actions, src \in WideSources,
                dst \in WideDestinations, dport \in WidePorts, proto \in WideProtocols}

\* port policies: every criticality, enabled and disabled entries, absent ports
Policies ==
    { <<Setting(21, "CRITICAL", TRUE), Setting(23, "HIGH", TRUE),
        Setting(80, "MEDIUM", TRUE), Setting(445, "HIGH", TRUE)>>,
      <<Setting(21, "CRITICAL", FALSE), Setting(22, "LOW", TRUE),
        Setting(80, "INFORMATIONAL", TRUE), Setting(445, "HIGH", FALSE)>>,
      <<Setting(445, "CRITICAL", TRUE)>>,
      <<>> }

(***************************************************************************)
(* The engine applied to an input: pc is "idle" before the call and "done" *)
(* after it, when results holds what analyzeRules returned.                *)
(***************************************************************************)
NoResults == <<>>

\* output before a parser was applied to input
NoOutput == <<>>

\* the application as it starts: the import tab, no filter, no settings tab
\* mounted, no import launched
NoFilters == [clauses |-> <<>>, quickSearch |-> <<>>]
NoSettings == <<>>
NoPending == [launched |-> FALSE, rows |-> <<>>]

AppAtStart ==
    /\ activeTab = "import"
    /\ filters = NoFilters
    /\ currentSettings = NoSettings
    /\ pending = NoPending

\* Fault variant of Analyze: the rule list is reversed in place before the
\* scan, as rules.reverse() would do
Analyze_inPlace ==
    /\ pc = "idle"
    /\ ~Raises(rawRules)
    /\ rawRules' = [k \in 1..Len(rawRules) |-> rawRules[Len(rawRules) + 1 - k]]
    /\ results' = analyzeRules(rawRules', portSettings)
    /\ pc' = "done"
    /\ UNCHANGED <<portSettings, input, output, appVars>>

Analyze ==
    /\ pc = "idle"
    /\ ~Raises(rawRules)
    /\ results' = analyzeRules(rawRules, portSettings)
    /\ pc' = "done"
    /\ UNCHANGED <<rawRules, portSettings, input, output, appVars>>

\* the call ends in an error: nothing is returned
AnalyzeRaises ==
    /\ pc = "idle"
    /\ Raises(rawRules)
    /\ pc' = "error"
    /\ UNCHANGED <<rawRules, portSettings, results, input, output, appVars>>

\* an ALLOW any/any/any rule, next to which every rule of the pool is analysed
Anchor == Rule(1, TRUE, "ALLOW", T_any, T_any, T_any, T_any, "TCP")

DefaultPolicy ==
    <<Setting(21, "CRITICAL", TRUE), Setting(23, "HIGH", TRUE),
      Setting(80, "MEDIUM", TRUE), Setting(445, "HIGH", TRUE)>>

\* the rule risk evaluator: every rule of the pool alone under every policy,
\* and before and after the anchor rule under the default policy
InitExposure ==
    /\ \/ \E r \in WidePool : rawRules = <<r>> /\ portSettings \in Policies
       \/ \E r \in WidePool : /\ rawRules \in {WithIds(<<Anchor, r>>), WithIds(<<r, Anchor>>)}
                                /\ portSettings = DefaultPolicy
    /\ results = NoResults
    /\ pc = "idle"
    /\ input = T_empty
    /\ output = NoOutput
    /\ AppAtStart

NextEngine == Analyze

SpecExposure == InitExposure /\ [][NextEngine]_vars

(***************************************************************************)
(* Inputs of the correlation analyzer: every ordered pair of rules over a  *)
(* pool that varies each compared field, and every list of up to MaxRules  *)
(* rules over a small pool (several candidates before one rule).           *)
(***************************************************************************)
MaxRules == 3

PairPool == {Rule(1, en, act, src, dst, T_any, dport, proto) :
                en \in BOOLEAN, act \in {"ALLOW", "DENY"}, src \in {T_any, T_net24},
                dst \in {T_any, T_host}, dport \in {T_any, T_443, T_443Sp},
                proto \in {"ANY", "TCP", "UDP"}}

\* source, destination, source port, destination port, protocol
CoreShapes == { <<T_any, T_any, T_any, T_any, "ANY">>,
                <<T_net24, T_any, T_any, T_443, "TCP">>,
                <<T_net24, T_any, T_any, T_443Sp, "TCP">>,
                <<T_ANY, T_any, T_1024, T_any, "ANY">> }

CorePool == {Rule(1, en, act, sh[1], sh[2], sh[3], sh[4], sh[5]) :
                en \in BOOLEAN, act \in {"ALLOW", "DENY"}, sh \in CoreShapes}

InitHygiene ==
    /\ \/ \E a \in PairPool, b \in PairPool : rawRules = WithIds(<<a, b>>)
       \/ \E n \in 1..MaxRules : \E l \in [1..n -> CorePool] : rawRules = WithIds(l)
    /\ portSettings = DefaultPolicy
    /\ results = NoResults
    /\ pc = "idle"
    /\ input = T_empty
    /\ output = NoOutput
    /\ AppAtStart

SpecHygiene == InitHygiene /\ [][NextEngine]_vars

\* rules whose address and port texts are empty, malformed or nonsensical
OddAddresses == {T_empty, T_slash, T_netBad, T_netNeg, T_net64, T_abc}

OddPorts == {T_empty, T_abc, T_abc445, T_dash, T_open, T_back, T_seps, T_neg1,
             T_huge, T_80huge}

OddPool == {Rule(1, en, act, src, dst, dport, dport, "TCP") :
               en \in BOOLEAN, act \in {"ALLOW", "DENY"}, src \in OddAddresses,
               dst \in {T_empty, T_abc, T_any}, dport \in OddPorts}

InitTotal ==
    /\ \E r \in OddPool : rawRules \in {<<r>>, WithIds(<<Anchor, r>>)}
    /\ portSettings \in Policies
    /\ results = NoResults
    /\ pc = "idle"
    /\ input = T_empty
    /\ output = NoOutput
    /\ AppAtStart

NextTotal == Analyze \/ AnalyzeRaises

SpecTotal == InitTotal /\ [][NextTotal]_vars

(***************************************************************************)
(* The scope parser applied to a text: pc is "idle" before the call and    *)
(* "scope" after it, when output holds the number getCidrSize returned.    *)
(***************************************************************************)
ParseScope ==
    /\ pc = "idle"
    /\ output' = <<getCidrSize(input)>>
    /\ pc' = "scope"
    /\ UNCHANGED <<rawRules, portSettings, results, input, appVars>>

\* address texts: the universal tokens, bare addresses, and an address with
\* each of the masks, with and without white space around
Pads == {<<>>, <<" ">>}

Masks == {<<"0">>, <<"8">>, <<"0", "8">>, <<"2", "4">>, <<"3", "2">>, <<"3", "3">>,
          <<"6", "4">>, <<"-", "5">>, <<"+", "8">>, <<"8", "x">>, <<"x", "8">>,
          <<" ", "8">>, <<"8", "/", "9">>, <<>>}

ScopeBodies == {T_any, T_ANY, T_all, T_star, T_zero, T_host, T_empty, T_abc, T_slash}
                 \cup {T_host \o T_slash \o m : m \in Masks}

ScopeTexts == {l \o b \o t : l \in Pads, b \in ScopeBodies, t \in Pads}

InitScope ==
    /\ rawRules = <<>>
    /\ portSettings = <<>>
    /\ results = NoResults
    /\ pc = "idle"
    /\ input \in ScopeTexts
    /\ output = NoOutput
    /\ AppAtStart

NextScope == ParseScope

SpecScope == InitScope /\ [][NextScope]_vars

(***************************************************************************)
(* The port parser applied to a text: pc is "idle" before the call and     *)
(* "ports" after it, when output holds the list parsePorts returned, or    *)
(* "error" when the call raised.                                           *)
(***************************************************************************)
ParsePorts ==
    /\ pc = "idle"
    /\ ~PushOverflows(input)
    /\ output' = parsePorts(input)
    /\ pc' = "ports"
    /\ UNCHANGED <<rawRules, portSettings, results, input, appVars>>

ParsePortsRaises ==
    /\ pc = "idle"
    /\ PushOverflows(input)
    /\ pc' = "error"
    /\ UNCHANGED <<rawRules, portSettings, results, input, output, appVars>>

\* port texts: one token or two tokens with a separator between them, the
\* wildcard tokens in both letter cases, with and without white space around
PortTokens == {T_22, T_443, <<"8", "0">>, T_range, T_back, T_abc, T_neg1, T_open, T_dash,
               <<"1", "0", "0", "0", "-", "1", "0", "0", "2">>,
               <<"8", "0", "a", "b", "c">>, <<"+", "8">>, <<"0", "8">>,
               <<"1", "-", "2", "-", "9">>, <<"x", "-", "3">>, T_any, T_huge}

ListSeps == {<<",">>, <<",", " ">>, <<" ">>}

WildcardTexts == {T_any, T_ANY, T_all, T_star, T_full, <<"A", "l", "l">>}

PortTexts ==
    {l \o b \o t : l \in Pads, b \in PortTokens \cup WildcardTexts \cup {T_empty}, t \in Pads}
      \cup {a \o sep \o b : a \in PortTokens, sep \in ListSeps, b \in PortTokens}

InitPorts ==
    /\ rawRules = <<>>
    /\ portSettings = <<>>
    /\ results = NoResults
    /\ pc = "idle"
    /\ input \in PortTexts
    /\ output = NoOutput
    /\ AppAtStart

NextPorts == ParsePorts \/ ParsePortsRaises

SpecPorts == InitPorts /\ [][NextPorts]_vars

(***************************************************************************)
(* The Uploader (HygieneTab.tsx): processData turns the rows of the CSV    *)
(* into rules. A row is a record of cell texts [source, destination,       *)
(* sourcePort, destinationPort, protocol, action, enabled]; a column that  *)
(* is not mapped is an empty cell. No id column is mapped: the id of a     *)
(* rule is the number of its row.                                          *)
(***************************************************************************)
UpperChar(c) ==
    CASE c = "a" -> "A" [] c = "b" -> "B" [] c = "c" -> "C" [] c = "d" -> "D"
      [] c = "e" -> "E" [] c = "f" -> "F" [] c = "g" -> "G" [] c = "h" -> "H"
      [] c = "i" -> "I" [] c = "j" -> "J" [] c = "k" -> "K" [] c = "l" -> "L"
      [] c = "m" -> "M" [] c = "n" -> "N" [] c = "o" -> "O" [] c = "p" -> "P"
      [] c = "q" -> "Q" [] c = "r" -> "R" [] c = "s" -> "S" [] c = "t" -> "T"
      [] c = "u" -> "U" [] c = "v" -> "V" [] c = "w" -> "W" [] c = "x" -> "X"
      [] c = "y" -> "Y" [] c = "z" -> "Z" [] OTHER -> c

toUpperCase(s) == [i \in 1..Len(s) |-> UpperChar(s[i])]

\* String.prototype.includes for a needle of any length
includesText(s, needle) ==
    \E i \in 1..(Len(s) - Len(needle) + 1) : SubSeq(s, i, i + Len(needle) - 1) = needle

T_ALLOW == <<"A", "L", "L", "O", "W">>
T_PERMIT == <<"P", "E", "R", "M", "I", "T">>
T_false == <<"f", "a", "l", "s", "e">>
T_no == <<"n", "o">>
T_disabled == <<"d", "i", "s", "a", "b", "l", "e", "d">>

\* the protocol of a rule is a name; the names the engine tells apart
ProtocolName(text) ==
    CASE text = <<"A", "N", "Y">> -> "ANY"
      [] text = <<"T", "C", "P">> -> "TCP"
      [] text = <<"U", "D", "P">> -> "UDP"
      [] OTHER -> "OTHER"

\* getVal(field) || 'any'
OrAny(cell) == IF cell = <<>> THEN T_any ELSE cell

RowToRule(row, idx) ==
    Rule(idx,
         /\ ~includesText(toLowerCase(row.enabled), T_false)
         /\ ~includesText(toLowerCase(row.enabled), T_no)
         /\ ~includesText(toLowerCase(row.enabled), T_disabled),
         IF \/ includesText(toUpperCase(row.action), T_ALLOW)
            \/ includesText(toUpperCase(row.action), T_PERMIT)
         THEN "ALLOW" ELSE "DENY",
         OrAny(row.source), OrAny(row.destination), OrAny(row.sourcePort),
         OrAny(row.destinationPort),
         IF row.protocol = <<>> THEN "ANY" ELSE ProtocolName(toUpperCase(row.protocol)))

\* rows.map((row, idx) => ...)
processData(rows) == [idx \in 1..Len(rows) |-> RowToRule(rows[idx], idx)]

Row(src, dst, sport, dport, proto, act, en) ==
    [source |-> src, destination |-> dst, sourcePort |-> sport, destinationPort |-> dport,
     protocol |-> proto, action |-> act, enabled |-> en]

(***************************************************************************)
(* The application (App, Layout): the tab shown, the rule list, the port   *)
(* policy and the results memo. An import is launched on the import tab    *)
(* and arrives when its timer fires; the policy is saved from the settings *)
(* tab; the dashboard navigates to a tab with a filter.                    *)
(***************************************************************************)
AnalysisTabs == {"dashboard", "findings", "hygiene", "rules"}

Tabs == AnalysisTabs \cup {"docs", "settings", "import"}

\* what the results memo computes
AppResults(rules, settings) ==
    IF Len(rules) = 0 THEN NoResults ELSE analyzeRules(rules, settings)

\* Fault variant of useMemoResults: the port policy is no dependency
useMemoResults_rulesOnly(memo, oldRules, oldSettings, rules, settings) ==
    IF rules = oldRules THEN memo ELSE AppResults(rules, settings)

\* useMemo(..., [rawRules, portSettings]): recomputed when a dependency
\* changed
useMemoResults(memo, oldRules, oldSettings, rules, settings) ==
    IF rules = oldRules /\ settings = oldSettings THEN memo ELSE AppResults(rules, settings)

\* the list the settings tab edits: useState(settings) when the tab is
\* mounted, kept while it stays, gone when another tab is shown
SettingsState(tab, settings) ==
    IF tab # "settings" THEN NoSettings
    ELSE IF activeTab = "settings" THEN currentSettings
    ELSE settings

\* a click on a navigation button that is not disabled
SetActiveTab(tab) ==
    /\ tab \in AnalysisTabs => Len(rawRules) > 0
    /\ activeTab' = tab
    /\ currentSettings' = SettingsState(tab, portSettings)
    /\ UNCHANGED <<rawRules, portSettings, results, pc, input, output, filters, pending>>

\* Uploader.processData: the click on the launch button starts the timer
LaunchAnalysis(rows) ==
    /\ activeTab = "import"
    /\ ~pending.launched
    /\ pending' = [launched |-> TRUE, rows |-> rows]
    /\ UNCHANGED <<rawRules, portSettings, results, pc, input, output,
                   activeTab, filters, currentSettings>>

\* the timer fires: the rows are turned into rules and handed to
\* handleDataLoaded
ImportArrives ==
    /\ pending.launched
    /\ rawRules' = processData(pending.rows)
    /\ activeTab' = "dashboard"
    /\ pending' = NoPending
    /\ results' = useMemoResults(results, rawRules, portSettings, rawRules', portSettings)
    /\ currentSettings' = NoSettings
    /\ UNCHANGED <<portSettings, pc, input, output, filters>>

handleSettingsSave(newSettings) ==
    /\ activeTab = "settings"
    /\ portSettings' = newSettings
    /\ activeTab' = IF Len(rawRules) > 0 THEN "dashboard" ELSE activeTab
    /\ results' = useMemoResults(results, rawRules, portSettings, rawRules, portSettings')
    /\ currentSettings' = IF activeTab' = "settings" THEN newSettings ELSE NoSettings
    /\ UNCHANGED <<rawRules, pc, input, output, filters, pending>>

(***************************************************************************)
(* The settings tab (Settings.tsx): the list it edits and applies          *)
(***************************************************************************)
togglePort(port) ==
    /\ activeTab = "settings"
    /\ currentSettings' = [i \in 1..Len(currentSettings) |->
                              IF currentSettings[i].port = port
                              THEN [currentSettings[i] EXCEPT !.enabled = ~@]
                              ELSE currentSettings[i]]
    /\ UNCHANGED <<rawRules, portSettings, results, pc, input, output,
                   activeTab, filters, pending>>

\* Fault variant of addCustomPort: the list is not searched for the port
addCustomPort_noSearch(portText, label, criticality) ==
    /\ activeTab = "settings"
    /\ IF isNaN(parseInt(portText)) \/ label = <<>>
       THEN UNCHANGED currentSettings
       ELSE currentSettings' = Append(currentSettings,
                                      Setting(Num(parseInt(portText)), criticality, TRUE))
    /\ UNCHANGED <<rawRules, portSettings, results, pc, input, output,
                   activeTab, filters, pending>>

\* the form holds a port text, a label and a criticality; the handler
\* returns without a change when the text is no number, the label is empty
\* or the port is in the list
addCustomPort(portText, label, criticality) ==
    /\ activeTab = "settings"
    /\ IF \/ isNaN(parseInt(portText))
          \/ label = <<>>
          \/ \E i \in 1..Len(currentSettings) :
                currentSettings[i].port = Num(parseInt(portText))
       THEN UNCHANGED currentSettings
       ELSE currentSettings' = Append(currentSettings,
                                      Setting(Num(parseInt(portText)), criticality, TRUE))
    /\ UNCHANGED <<rawRules, portSettings, results, pc, input, output,
                   activeTab, filters, pending>>

removePort(port) ==
    /\ activeTab = "settings"
    /\ LET Keep(s) == s.port # port
       IN  currentSettings' = SelectSeq(currentSettings, Keep)
    /\ UNCHANGED <<rawRules, portSettings, results, pc, input, output,
                   activeTab, filters, pending>>

\* onSave(currentSettings)
handleApply == handleSettingsSave(currentSettings)

\* the dashboard is what renderContent shows
DashboardShown == results # NoResults /\ activeTab = "dashboard"

navigateWithFilters(tab, clauses) ==
    /\ DashboardShown
    /\ filters' = [clauses |-> clauses, quickSearch |-> <<>>]
    /\ activeTab' = tab
    /\ UNCHANGED <<rawRules, portSettings, results, pc, input, output,
                   currentSettings, pending>>

\* the filter bar is shown on the findings and rules tabs
FilterBarShown == results # NoResults /\ activeTab \in {"findings", "rules"}

setFilters(f) ==
    /\ FilterBarShown
    /\ filters' = f
    /\ UNCHANGED <<rawRules, portSettings, results, pc, input, output,
                   activeTab, currentSettings, pending>>

\* the rows of the imports: no row, one row of empty cells with the action
\* permit, and lists of two and three rows
T_permit == <<"p", "e", "r", "m", "i", "t">>
T_deny == <<"d", "e", "n", "y">>
T_Allow == <<"A", "l", "l", "o", "w">>
T_tcp == <<"t", "c", "p">>
T_No == <<"N", "o">>

RowAnyPermit == Row(T_empty, T_empty, T_empty, T_empty, T_empty, T_permit, T_empty)
RowDeny445 == Row(T_net8, T_host, T_empty, T_445, T_tcp, T_deny, T_No)
RowAllowRange == Row(T_any, T_host, T_empty, T_range, T_tcp, T_Allow, T_disabled)

ImportRows == {<<>>, <<RowAnyPermit>>, <<RowDeny445, RowAnyPermit>>,
               <<RowAllowRange, RowAnyPermit, RowDeny445>>}

\* the filters the dashboard navigates with
Clause(field, operator, value, logicalOperator) ==
    [field |-> field, operator |-> operator, value |-> value,
     logicalOperator |-> logicalOperator]

T_CRITICAL == <<"C", "R", "I", "T", "I", "C", "A", "L">>
T_Subnet == <<"S", "u", "b", "n", "e", "t", " ", "S", "c", "o", "p", "e">>

DashboardTargets ==
    { <<"findings", <<>>>>,
      <<"findings", <<Clause("severity", "EQUALS", T_CRITICAL, "AND")>>>>,
      <<"findings", <<Clause("category", "EQUALS", T_Subnet, "AND")>>>>,
      <<"rules", <<Clause("severity", "EQUALS", T_CRITICAL, "AND")>>>> }

BarFilters ==
    { NoFilters,
      [clauses |-> <<>>, quickSearch |-> T_abc],
      [clauses |-> <<Clause("severity", "EQUALS", T_CRITICAL, "AND"),
                     Clause("category", "EQUALS", T_Subnet, "OR")>>,
       quickSearch |-> <<>>] }

\* the policy is the saved one or the default one
InitApp ==
    /\ rawRules = <<>>
    /\ portSettings \in {DefaultPolicy, <<>>}
    /\ results = NoResults
    /\ pc = "app"
    /\ input = T_empty
    /\ output = NoOutput
    /\ AppAtStart

NextApp ==
    \/ \E tab \in Tabs : SetActiveTab(tab)
    \/ \E rows \in ImportRows : LaunchAnalysis(rows)
    \/ ImportArrives
    \/ \E p \in Policies : handleSettingsSave(p)
    \/ \E t \in DashboardTargets : navigateWithFilters(t[1], t[2])
    \/ \E f \in BarFilters : setFilters(f)

SpecApp == InitApp /\ [][NextApp]_vars

\* the settings tab on a policy of two entries; the port field keeps digits
\* only, and the form is filled with a port in the list (written with and
\* without a leading zero), a new port or nothing, with and without a label
T_8080 == <<"8", "0", "8", "0">>

FormPorts == {<<"8", "0">>, T_8080, <<"0", "8", "0">>, T_empty}

FormLabels == {T_empty, <<"x">>}

PortsShown == {currentSettings[i].port : i \in 1..Len(currentSettings)}

InitSettings ==
    /\ rawRules = <<>>
    /\ portSettings = <<Setting(21, "CRITICAL", TRUE), Setting(80, "MEDIUM", FALSE)>>
    /\ results = NoResults
    /\ pc = "app"
    /\ input = T_empty
    /\ output = NoOutput
    /\ activeTab = "settings"
    /\ filters = NoFilters
    /\ currentSettings = portSettings
    /\ pending = NoPending

NextSettings ==
    \/ \E port \in PortsShown : togglePort(port)
    \/ \E t \in FormPorts, l \in FormLabels : addCustomPort(t, l, "MEDIUM")
    \/ \E port \in PortsShown : removePort(port)
    \/ handleApply

SpecSettings == InitSettings /\ [][NextSettings]_vars

(***************************************************************************)
(* The findings list (FindingsList.tsx): the findings shown for a filter   *)
(***************************************************************************)
X_failure == <<"C", "r", "i", "t", "i", "c", "a", "l", " ", "s", "e", "c",
    "u", "r", "i", "t", "y", " ", "c", "o", "n", "t", "r", "o", "l", " ",
    "f", "a", "i", "l", "u", "r", "e", ".">>

X_broad == <<"B", "r", "o", "a", "d", " ", "p", "r", "o", "t", "o", "c", "o",
    "l", " ", "o", "r", " ", "p", "o", "r", "t", " ", "a", "c", "c", "e",
    "s", "s", " ", "(", "'", "A", "N", "Y", "'", ")", " ", "d", "e", "t",
    "e", "c", "t", "e", "d", ".">>

X_blast == <<"E", "x", "c", "e", "s", "s", "i", "v", "e", " ", "B", "l", "a",
    "s", "t", " ", "R", "a", "d", "i", "u", "s", " ", "(", "/", "1", "6",
    ")", ".">>

X_service == <<"S", "e", "r", "v", "i", "c", "e", " ", "I", "d", "e", "n",
    "t", "i", "t", "y", ":", " ", "S", "M", "B", " ", "(", "P", "o", "r",
    "t", " ", "4", "4", "5", ")", ".">>

T_Exposure == <<"E", "x", "c", "e", "s", "s", "i", "v", "e", " ", "E", "x",
    "p", "o", "s", "u", "r", "e">>

T_InsecurePort == <<"I", "n", "s", "e", "c", "u", "r", "e", " ", "P", "o",
    "r", "t">>

T_HIGH == <<"H", "I", "G", "H">>

T_MEDIUM == <<"M", "E", "D", "I", "U", "M">>

T_Rule1 == <<"R", "u", "l", "e", " ", "1">>

T_Rule2 == <<"R", "u", "l", "e", " ", "2">>

T_Rule3 == <<"R", "u", "l", "e", " ", "3">>

T_id1 == <<"1">>

T_id2 == <<"2">>

T_id3 == <<"3">>

T_hostA == <<"1", "9", "2", ".", "1", "6", "8", ".", "1", ".", "1", "0">>

T_8080_8090 == <<"8", "0", "8", "0", "-", "8", "0", "9", "0">>

T_TCP == <<"T", "C", "P">>

T_critical == <<"c", "r", "i", "t", "i", "c", "a", "l">>

T_port == <<"p", "o", "r", "t">>

T_100 == <<"1", "0", "0">>

T_ten == <<"1", "0", ".">>

T_crit == <<"c", "r", "i", "t">>

T_RULE2 == <<"R", "U", "L", "E", " ", "2">>

CodeOrder == <<" ", "'", "(", ")", "*", ",", "-", ".", "/", "0", "1", "2",
    "3", "4", "5", "6", "7", "8", "9", ":", "A", "B", "C", "D", "E", "F",
    "G", "H", "I", "J", "K", "L", "M", "N", "O", "P", "Q", "R", "S", "T",
    "U", "V", "W", "X", "Y", "Z", "a", "b", "c", "d", "e", "f", "g", "h",
    "i", "j", "k", "l", "m", "n", "o", "p", "q", "r", "s", "t", "u", "v",
    "w", "x", "y", "z">>

\* the characters of the texts below in the order of their UTF-16 code units
CodeRank(c) == CHOOSE i \in 1..Len(CodeOrder) : CodeOrder[i] = c

\* a < b for strings: by code unit, a proper prefix first
RECURSIVE LessText(_, _)
LessText(a, b) ==
    IF b = <<>> THEN FALSE
    ELSE IF a = <<>> THEN TRUE
    ELSE IF Head(a) # Head(b) THEN CodeRank(Head(a)) < CodeRank(Head(b))
    ELSE LessText(Tail(a), Tail(b))

startsWith(s, p) == Len(p) <= Len(s) /\ SubSeq(s, 1, Len(p)) = p

endsWith(s, p) == Len(p) <= Len(s) /\ SubSeq(s, Len(s) - Len(p) + 1, Len(s)) = p

\* split(/[,-]/)[0]: the text before the first comma or dash
RECURSIVE FirstPiece(_)
FirstPiece(s) ==
    IF s = <<>> \/ Head(s) \in {",", "-"} THEN <<>>
    ELSE <<Head(s)>> \o FirstPiece(Tail(s))

\* replace(/[^\d]/g, '')
DigitsOnly(s) == LET IsDigit(c) == c \in Digits IN SelectSeq(s, IsDigit)

\* a finding and a rule as the list receives them, every field a text but
\* the score
ShownFinding(ruleId, ruleName, category, score, severity, explanation) ==
    [ruleId |-> ruleId, ruleName |-> ruleName, category |-> category,
     score |-> score, severity |-> severity, explanation |-> explanation]

ShownRule(id, source, destination, destinationPort, protocol, action) ==
    [id |-> id, source |-> source, destination |-> destination,
     destinationPort |-> destinationPort, protocol |-> protocol, action |-> action]

\* rules.find(r => r.id === f.ruleId): the first rule of that id, or none
associatedRule(rules, f) ==
    LET hits == {i \in 1..Len(rules) : rules[i].id = f.ruleId}
    IN  IF hits = {} THEN <<>>
        ELSE <<rules[CHOOSE i \in hits : \A j \in hits : i <= j]>>

RuleFields == {"source", "destination", "destinationPort", "protocol", "action"}

ClauseFields == {"id", "name", "severity", "category", "description"} \cup RuleFields

targetValue(f, field, rules) ==
    CASE field = "id" -> f.ruleId
      [] field = "name" -> f.ruleName
      [] field = "severity" -> f.severity
      [] field = "category" -> f.category
      [] field = "description" -> f.explanation
      [] field \in RuleFields ->
            IF associatedRule(rules, f) = <<>> THEN T_empty
            ELSE associatedRule(rules, f)[1][field]

evaluateClause(f, clause, rules) ==
    IF clause.field \notin ClauseFields THEN TRUE
    ELSE
    LET target        == targetValue(f, clause.field, rules)
        val           == toLowerCase(clause.value)
        tVal          == toLowerCase(target)
        numericTarget == parseInt(DigitsOnly(FirstPiece(target)))
        numericVal    == parseInt(val)
        numeric       == /\ clause.field = "destinationPort"
                         /\ ~isNaN(numericTarget) /\ ~isNaN(numericVal)
    IN  CASE numeric /\ clause.operator = "GREATER_THAN" ->
                Num(numericTarget) > Num(numericVal)
          [] numeric /\ clause.operator = "LESS_THAN" ->
                Num(numericTarget) < Num(numericVal)
          [] OTHER ->
                CASE clause.operator = "CONTAINS" -> includesText(tVal, val)
                  [] clause.operator = "NOT_CONTAINS" -> ~includesText(tVal, val)
                  [] clause.operator = "EQUALS" -> tVal = val
                  [] clause.operator = "NOT_EQUALS" -> tVal # val
                  [] clause.operator = "STARTS_WITH" -> startsWith(tVal, val)
                  [] clause.operator = "ENDS_WITH" -> endsWith(tVal, val)
                  [] clause.operator = "GREATER_THAN" -> LessText(clause.value, target)
                  [] clause.operator = "LESS_THAN" -> LessText(target, clause.value)
                  [] OTHER -> TRUE

quickSearchMatch(f, quickSearch) ==
    \/ quickSearch = T_empty
    \/ \E field \in {f.explanation, f.ruleName, f.ruleId, f.category, f.severity} :
         includesText(toLowerCase(field), toLowerCase(quickSearch))

\* Fault variant of ClauseLoop: AND binds before OR
RECURSIVE ClauseLoop_andFirst(_, _, _, _, _)
ClauseLoop_andFirst(f, clauses, rules, i, result) ==
    IF i > Len(clauses) THEN result
    ELSE IF clauses[i].logicalOperator = "AND"
         THEN ClauseLoop_andFirst(f, clauses, rules, i + 1,
                                  result /\ evaluateClause(f, clauses[i], rules))
         ELSE result \/ ClauseLoop_andFirst(f, clauses, rules, i + 1,
                                            evaluateClause(f, clauses[i], rules))

\* the loop over the clauses from the second on (i counts from 1 here)
RECURSIVE ClauseLoop(_, _, _, _, _)
ClauseLoop(f, clauses, rules, i, result) ==
    IF i > Len(clauses) THEN result
    ELSE ClauseLoop(f, clauses, rules, i + 1,
                    IF clauses[i].logicalOperator = "AND"
                    THEN result /\ evaluateClause(f, clauses[i], rules)
                    ELSE result \/ evaluateClause(f, clauses[i], rules))

\* the predicate of findings.filter
Passes(f, rules, fs) ==
    IF ~quickSearchMatch(f, fs.quickSearch) THEN FALSE
    ELSE IF Len(fs.clauses) = 0 THEN TRUE
    ELSE ClauseLoop(f, fs.clauses, rules, 2, evaluateClause(f, fs.clauses[1], rules))

\* sort((a, b) => b.score - a.score): the sort is stable, a finding goes
\* behind those of its score that came before it
RECURSIVE InsertByScore(_, _)
InsertByScore(sorted, f) ==
    IF sorted = <<>> THEN <<f>>
    ELSE IF Head(sorted).score >= f.score
         THEN <<Head(sorted)>> \o InsertByScore(Tail(sorted), f)
         ELSE <<f>> \o sorted

RECURSIVE SortByScore(_, _)
SortByScore(list, sorted) ==
    IF list = <<>> THEN sorted
    ELSE SortByScore(Tail(list), InsertByScore(sorted, Head(list)))

filtered(findings, rules, fs) ==
    LET Keep(f) == Passes(f, rules, fs)
    IN  SortByScore(SelectSeq(findings, Keep), <<>>)

\* the list is rendered for its findings, rules and filters
FilterFindings ==
    /\ pc = "idle"
    /\ output' = filtered(results.findings, rawRules, filters)
    /\ pc' = "done"
    /\ UNCHANGED <<rawRules, portSettings, results, input, activeTab, filters,
                   currentSettings, pending>>

\* three rules and the findings the engine has for them, in its order
ShownRules ==
    << ShownRule(T_id1, T_net16, T_host, T_8080_8090, T_ANY, T_ALLOW),
       ShownRule(T_id2, T_any, T_any, T_any, T_ANY, T_ALLOW),
       ShownRule(T_id3, T_hostA, T_host, T_445, T_TCP, T_ALLOW) >>

ShownFindings ==
    << ShownFinding(T_id1, T_Rule1, T_Exposure, 60, T_MEDIUM, X_broad),
       ShownFinding(T_id1, T_Rule1, T_Subnet, 80, T_HIGH, X_blast),
       ShownFinding(T_id2, T_Rule2, T_Exposure, 100, T_CRITICAL, X_failure),
       ShownFinding(T_id3, T_Rule3, T_InsecurePort, 100, T_CRITICAL, X_service) >>

\* the findings of the first n rules
FindingsUpTo(n) ==
    LET Early(f) == \E i \in 1..n : ShownRules[i].id = f.ruleId
    IN  SelectSeq(ShownFindings, Early)

MaxClauses == 3

ClausePool ==
    { [field |-> "severity", operator |-> "EQUALS", value |-> T_critical],
      [field |-> "category", operator |-> "CONTAINS", value |-> T_port],
      [field |-> "destinationPort", operator |-> "GREATER_THAN", value |-> T_100],
      [field |-> "source", operator |-> "STARTS_WITH", value |-> T_ten] }

ClauseLists ==
    UNION { [1..n -> { Clause(c.field, c.operator, c.value, op) :
                         c \in ClausePool, op \in {"AND", "OR"} }] : n \in 0..MaxClauses }

QuickSearches == {T_empty, T_crit, T_RULE2}

InitFilter ==
    /\ \E n \in 1..Len(ShownRules) :
        /\ rawRules = SubSeq(ShownRules, 1, n)
        /\ results = [findings |-> FindingsUpTo(n)]
    /\ portSettings = DefaultPolicy
    /\ pc = "idle"
    /\ input = T_empty
    /\ output = NoOutput
    /\ activeTab = "findings"
    /\ filters \in [clauses : ClauseLists, quickSearch : QuickSearches]
    /\ currentSettings = NoSettings
    /\ pending = NoPending

NextFilter == FilterFindings

SpecFilter == InitFilter /\ [][NextFilter]_vars

(***************************************************************************)
(* Properties of the rule risk evaluator                                   *)
(***************************************************************************)
Done == pc = "done"

\* the entries of a finding list that carry the rule id and the category
FindingsFor(fs, id, cat) ==
    LET Test(f) == f.ruleId = id /\ f.category = cat
    IN  SelectSeq(fs, Test)

Exposure(r) == FindingsFor(results.findings, r.id, "Excessive Exposure")
Subnet(r) == FindingsFor(results.findings, r.id, "Subnet Scope")
Insecure(r) == FindingsFor(results.findings, r.id, "Insecure Port")

RulesAt == 1..Len(rawRules)

\* the four breadth signals of the spec
SrcScope(r) == getCidrSize(r.source)
DstScope(r) == getCidrSize(r.destination)
WildcardPort(r) == AnyPort \in {parsePorts(r.destinationPort)[k] :
                                   k \in 1..Len(parsePorts(r.destinationPort))}
AnyAnyAny(r) == SrcScope(r) = 0 /\ DstScope(r) = 0 /\ WildcardPort(r)

\* C1: an ALLOW rule has an Excessive Exposure finding of severity CRITICAL
\* and score 100 exactly when its source scope is 0, its destination scope is
\* 0 and its destination port list holds the wildcard sentinel, whatever its
\* protocol.
Thm_C1_CriticalTier ==
    Done => \A i \in RulesAt :
        LET r == rawRules[i]
            E == Exposure(r)
        IN  r.action = "ALLOW" =>
              /\ (\E k \in 1..Len(E) : E[k].severity = "CRITICAL" /\ E[k].score = 100)
                    <=> AnyAnyAny(r)
              /\ \A k \in 1..Len(E) : (E[k].severity = "CRITICAL" \/ E[k].score = 100)
                    => AnyAnyAny(r)

\* an any/any/any ALLOW rule of protocol TCP got CRITICAL/100, and so did one
\* of protocol ANY next to it
Wit_C1_CriticalTier ==
    /\ Done
    /\ Len(rawRules) = 2
    /\ \A i \in RulesAt :
          /\ rawRules[i].action = "ALLOW" /\ AnyAnyAny(rawRules[i])
          /\ Exposure(rawRules[i]) # <<>>
          /\ Exposure(rawRules[i])[1].score = 100
    /\ rawRules[1].protocol = "TCP" /\ rawRules[2].protocol = "ANY"

\* C2: every entry of findings belongs to a rule whose action is ALLOW; a
\* DENY or OTHER rule contributes none.
Thm_C2_AllowOnly ==
    Done => \A k \in 1..Len(results.findings) :
        /\ \E i \in RulesAt : rawRules[i].id = results.findings[k].ruleId
        /\ \A i \in RulesAt : rawRules[i].id = results.findings[k].ruleId
                                 => rawRules[i].action = "ALLOW"

\* a DENY any/any/any rule of protocol ANY before the ALLOW anchor: the
\* findings are the anchor's alone
Wit_C2_AllowOnly ==
    /\ Done
    /\ Len(rawRules) = 2
    /\ rawRules[1].action = "DENY" /\ AnyAnyAny(rawRules[1]) /\ rawRules[1].protocol = "ANY"
    /\ rawRules[2].action = "ALLOW"
    /\ results.findings # <<>>
    /\ \A k \in 1..Len(results.findings) : results.findings[k].ruleId = rawRules[2].id

\* C3: an ALLOW rule has exactly one Excessive Exposure finding when one of
\* anySource, anyDest, anyProto, hasAnyPort holds and none otherwise; below
\* the CRITICAL tier it is HIGH/85 if anySource, else HIGH/80 if anyDest, else
\* MEDIUM/60.
Thm_C3_ExposureTiers ==
    Done => \A i \in RulesAt :
        LET r == rawRules[i]
            E == Exposure(r)
            anySource == SrcScope(r) = 0
            anyDest   == DstScope(r) = 0
            anyProto  == r.protocol = "ANY"
            weighted2 == (IF anySource THEN 2 ELSE 0) + (IF anyDest THEN 2 ELSE 0)
                       + (IF WildcardPort(r) THEN 2 ELSE 0) + (IF anyProto THEN 1 ELSE 0)
        IN  r.action = "ALLOW" =>
              IF anySource \/ anyDest \/ anyProto \/ WildcardPort(r)
              THEN /\ Len(E) = 1
                   /\ weighted2 < 6 =>
                        <<E[1].severity, E[1].score>> =
                            IF anySource THEN <<"HIGH", 85>>
                            ELSE IF anyDest THEN <<"HIGH", 80>>
                            ELSE <<"MEDIUM", 60>>
              ELSE Len(E) = 0

\* source and destination are both universal but the port is specific: the
\* source tier wins over the destination tier
Wit_C3_ExposureTiers ==
    /\ Done
    /\ Len(rawRules) = 1
    /\ rawRules[1].action = "ALLOW"
    /\ SrcScope(rawRules[1]) = 0 /\ DstScope(rawRules[1]) = 0 /\ ~WildcardPort(rawRules[1])
    /\ Len(Exposure(rawRules[1])) = 1
    /\ Exposure(rawRules[1])[1].score = 85

EnabledEntries(p) ==
    {k \in 1..Len(portSettings) : portSettings[k].port = p /\ portSettings[k].enabled}

MinOf(S) == CHOOSE x \in S : \A y \in S : x <= y

\* the position of the rule that carries an id (ids are unique in a list)
Pos(id) == CHOOSE i \in RulesAt : rawRules[i].id = id

\* the shadowing and the conflict findings of the rule at position i
ShadowOf(i) ==
    LET Test(f) == /\ f.ruleId = rawRules[i].id
                   /\ f.category = "Policy Hygiene"
                   /\ (f.severity = "INFORMATIONAL" \/ f.score = 20)
    IN  SelectSeq(results.hygiene, Test)

ConflictOf(i) == FindingsFor(results.hygiene, rawRules[i].id, "Correlation Error")

\* a wildcard token of an address or port field: the text any in any letter
\* case
IsAnyToken(t) == toLowerCase(t) = T_any

\* the earlier rule p is equal or broader than r on every compared dimension
EqualOrBroader(p, r) ==
    /\ (p.source = r.source \/ IsAnyToken(p.source))
    /\ (p.destination = r.destination \/ IsAnyToken(p.destination))
    /\ (p.protocol = r.protocol \/ p.protocol = "ANY")
    /\ (p.destinationPort = r.destinationPort \/ IsAnyToken(p.destinationPort))

\* C6: an enabled rule at index i has an INFORMATIONAL/20 Policy Hygiene
\* finding exactly when an enabled rule of the same action below index i is
\* equal or broader on source, destination, protocol and destination port;
\* the finding names the lowest-index such rule; a disabled rule has none and
\* a disabled earlier rule never shadows.
Thm_C6_Shadowing ==
    Done => \A i \in RulesAt :
        LET r == rawRules[i]
            Cands == {j \in 1..(i - 1) : /\ rawRules[j].enabled
                                         /\ rawRules[j].action = r.action
                                         /\ EqualOrBroader(rawRules[j], r)}
            SF == ShadowOf(i)
        IN  /\ (SF # <<>>) <=> (r.enabled /\ Cands # {})
            /\ \A k \in 1..Len(SF) :
                  /\ SF[k].severity = "INFORMATIONAL" /\ SF[k].score = 20
                  /\ SF[k].ref = rawRules[MinOf(Cands)].id

\* two enabled earlier rules both eclipse the third: the finding names the
\* first; and a disabled equal rule before them was passed over
Wit_C6_Shadowing ==
    /\ Done
    /\ Len(rawRules) = 3
    /\ ~rawRules[1].enabled /\ rawRules[2].enabled /\ rawRules[3].enabled
    /\ rawRules[1].action = rawRules[3].action /\ EqualOrBroader(rawRules[1], rawRules[3])
    /\ rawRules[2].action = rawRules[3].action /\ EqualOrBroader(rawRules[2], rawRules[3])
    /\ Len(ShadowOf(3)) = 1
    /\ ShadowOf(3)[1].ref = rawRules[2].id

\* Packets and first-match semantics: which packets a rule's texts match.
\* An address is a 32-bit number; a rule's address text matches it when the
\* text is universal or the first n bits agree, n the prefix length.
Ip(a, b, c, d) == ((a * 256 + b) * 256 + c) * 256 + d

RECURSIVE Pow2(_)
Pow2(n) == IF n = 0 THEN 1 ELSE 2 * Pow2(n - 1)

\* the address part of a text such as 10.0.0.0/24, as a number
AddrOf(text) ==
    LET o == split(split(toLowerCase(trim(text)), "/")[1], ".")
    IN  Ip(Num(parseInt(o[1])), Num(parseInt(o[2])), Num(parseInt(o[3])), Num(parseInt(o[4])))

\* addresses below 128.0.0.0 only: they agree on the first bit
AddrMatches(text, ip) ==
    LET n == getCidrSize(text)
    IN  IF n = 0 THEN TRUE
        ELSE IF n = 1 THEN TRUE
        ELSE IF n \in 2..32 THEN AddrOf(text) \div Pow2(32 - n) = ip \div Pow2(32 - n)
        ELSE FALSE

PortMatches(text, p) ==
    \E k \in 1..Len(parsePorts(text)) : parsePorts(text)[k] \in {AnyPort, p}

Matches(r, pkt) ==
    /\ AddrMatches(r.source, pkt.src)
    /\ AddrMatches(r.destination, pkt.dst)
    /\ (r.protocol = "ANY" \/ r.protocol = pkt.proto)
    /\ PortMatches(r.sourcePort, pkt.sport)
    /\ PortMatches(r.destinationPort, pkt.dport)

Packets == [src : {Ip(10, 0, 0, 5), Ip(10, 0, 1, 5)}, dst : {Ip(10, 0, 0, 5), Ip(10, 0, 1, 5)},
            proto : {"TCP", "UDP"}, sport : {1024, 80}, dport : {443, 80}]

\* C7: a rule flagged as shadowed is unreachable under first-match
\* semantics: the rule its finding names is enabled, has the same action and
\* matches every packet (source, destination, protocol, source port,
\* destination port) that the flagged rule matches.
Cex_C7_ShadowedUnreachable ==
    Done => \A i \in RulesAt : \A k \in 1..Len(ShadowOf(i)) :
        LET r == rawRules[i]
            e == rawRules[Pos(ShadowOf(i)[k].ref)]
        IN  /\ e.enabled
            /\ e.action = r.action
            /\ \A pkt \in Packets : Matches(r, pkt) => Matches(e, pkt)

\* the findings of the hygiene list that name another rule
NamesARule(f) == f.ref # NoRef

IndexBounded ==
    \A k \in 1..Len(results.hygiene) :
        NamesARule(results.hygiene[k])
            => Pos(results.hygiene[k].ref) < Pos(results.hygiene[k].ruleId)

FirstRuleClean == ShadowOf(1) = <<>> /\ ConflictOf(1) = <<>>

\* rule A and rule B of the order-sensitivity scenario
IsRuleA(r) == /\ r.enabled /\ r.action = "ALLOW"
              /\ r.source = T_any /\ r.destination = T_any /\ r.destinationPort = T_any

IsRuleB(r) == /\ r.enabled /\ r.action = "ALLOW"
              /\ r.source = T_net24 /\ r.destination = T_any /\ r.destinationPort = T_443

FlaggedBy(i, j) == \E k \in 1..Len(ShadowOf(i)) : ShadowOf(i)[k].ref = rawRules[j].id

SwappedClean ==
    (Len(rawRules) = 2 /\ IsRuleB(rawRules[1]) /\ IsRuleA(rawRules[2]))
        => ShadowOf(1) = <<>> /\ ShadowOf(2) = <<>>

\* C8 as stated: hygiene findings name strictly earlier rules only, the rule
\* at index 0 has no shadowing or conflict finding, A before B flags B as
\* shadowed by A, and B before A flags neither.
Cex_C8_IndexBounded ==
    Done => /\ IndexBounded
            /\ FirstRuleClean
            /\ (Len(rawRules) = 2 /\ IsRuleA(rawRules[1]) /\ IsRuleB(rawRules[2]))
                  => FlaggedBy(2, 1)
            /\ SwappedClean

\* C8 amended: the same, with B flagged as shadowed by A exactly when A's
\* protocol is ANY or equal to B's.
Thm_C8_IndexBounded ==
    Done => /\ IndexBounded
            /\ FirstRuleClean
            /\ (Len(rawRules) = 2 /\ IsRuleA(rawRules[1]) /\ IsRuleB(rawRules[2]))
                  => (FlaggedBy(2, 1) <=> (rawRules[1].protocol = "ANY"
                                            \/ rawRules[1].protocol = rawRules[2].protocol))
            /\ SwappedClean

\* A before B with the same protocol: B is flagged as shadowed by A
Wit_C8_IndexBounded ==
    /\ Done
    /\ Len(rawRules) = 2 /\ IsRuleA(rawRules[1]) /\ IsRuleB(rawRules[2])
    /\ rawRules[1].protocol = "TCP" /\ rawRules[2].protocol = "TCP"
    /\ FlaggedBy(2, 1)

\* two enabled rules with the same source, destination and destination port
\* text and different actions
Opposed(i, j) ==
    /\ rawRules[i].enabled /\ rawRules[j].enabled
    /\ rawRules[i].action # rawRules[j].action
    /\ rawRules[i].source = rawRules[j].source
    /\ rawRules[i].destination = rawRules[j].destination
    /\ rawRules[i].destinationPort = rawRules[j].destinationPort

ConflictNames(i, j) == \E k \in 1..Len(ConflictOf(i)) : ConflictOf(i)[k].ref = rawRules[j].id

\* C9 as stated: of two opposed rules, each has a Correlation Error finding
\* that names the other.
Cex_C9_BothSurface ==
    Done => \A i \in RulesAt : \A j \in RulesAt :
        (i # j /\ Opposed(i, j)) => ConflictNames(i, j) /\ ConflictNames(j, i)

\* C9 amended: of two opposed rules the later one has a Correlation Error
\* finding, which names the first rule before it that it is opposed to (the
\* earlier rule of the pair when the list holds these two rules only); the
\* earlier rule has no Correlation Error finding that names the later one.
Thm_C9_LaterSurfaces ==
    Done => \A i \in RulesAt : \A j \in RulesAt :
        (i < j /\ Opposed(i, j)) =>
            /\ ConflictOf(j) # <<>>
            /\ \A k \in 1..Len(ConflictOf(j)) :
                  /\ Pos(ConflictOf(j)[k].ref) <= i
                  /\ rawRules[Pos(ConflictOf(j)[k].ref)].enabled
                  /\ rawRules[Pos(ConflictOf(j)[k].ref)].action # rawRules[j].action
                  /\ rawRules[Pos(ConflictOf(j)[k].ref)].destinationPort = rawRules[j].destinationPort
            /\ ~ConflictNames(i, j)
            /\ Len(rawRules) = 2 => (ConflictNames(j, i) /\ ConflictOf(i) = <<>>)

\* a two-rule list of opposed rules: the second names the first, the first
\* has no Correlation Error
Wit_C9_LaterSurfaces ==
    /\ Done
    /\ Len(rawRules) = 2
    /\ Opposed(1, 2)
    /\ ConflictNames(2, 1)
    /\ ConflictOf(1) = <<>>

\* C10: an enabled rule at index i has a MEDIUM/50 Correlation Error finding
\* exactly when an enabled rule below index i has a different action and
\* exactly the same source, destination and destination port text; the
\* finding names the lowest-index such rule.
Thm_C10_Conflict ==
    Done => \A i \in RulesAt :
        LET r == rawRules[i]
            Cands == {j \in 1..(i - 1) : /\ rawRules[j].enabled
                                         /\ rawRules[j].action # r.action
                                         /\ rawRules[j].source = r.source
                                         /\ rawRules[j].destination = r.destination
                                         /\ rawRules[j].destinationPort = r.destinationPort}
            CF == ConflictOf(i)
        IN  /\ (CF # <<>>) <=> (r.enabled /\ Cands # {})
            /\ \A k \in 1..Len(CF) :
                  /\ CF[k].severity = "MEDIUM" /\ CF[k].score = 50
                  /\ CF[k].ref = rawRules[MinOf(Cands)].id

\* the first rule differs from the third in the white space of its port text
\* only, the second is opposed to it: the finding names the second
Wit_C10_Conflict ==
    /\ Done
    /\ Len(rawRules) = 3
    /\ rawRules[1].enabled /\ rawRules[1].action # rawRules[3].action
    /\ rawRules[1].source = rawRules[3].source
    /\ rawRules[1].destination = rawRules[3].destination
    /\ rawRules[1].destinationPort = T_443Sp /\ rawRules[3].destinationPort = T_443
    /\ Opposed(2, 3)
    /\ Len(ConflictOf(3)) = 1
    /\ ConflictOf(3)[1].ref = rawRules[2].id
    /\ ConflictOf(3)[1].score = 50

\* C11: a Correlation Error is a true contradiction: the flagged rule and
\* the rule its finding names have different actions and match the same
\* traffic, so that some packet is matched by both of them.
Cex_C11_TrueContradiction ==
    Done => \A i \in RulesAt : \A k \in 1..Len(ConflictOf(i)) :
        LET r == rawRules[i]
            e == rawRules[Pos(ConflictOf(i)[k].ref)]
        IN  /\ r.action # e.action
            /\ \A pkt \in Packets : Matches(r, pkt) <=> Matches(e, pkt)
            /\ \E pkt \in Packets : Matches(r, pkt) /\ Matches(e, pkt)

(***************************************************************************)
(* Properties of the latent-risk test, the summary and the result lists    *)
(***************************************************************************)
\* the latent-risk findings of the rule at position i
LatentOf(i) ==
    LET Test(f) == /\ f.ruleId = rawRules[i].id
                   /\ f.category = "Policy Hygiene"
                   /\ (f.severity = "LOW" \/ f.score = 40)
    IN  SelectSeq(results.hygiene, Test)

NumberOf(fs, sev) ==
    LET Test(f) == f.severity = sev
    IN  Len(SelectSeq(fs, Test))

TotalScore(fs) ==
    LET S[k \in 0..Len(fs)] == IF k = 0 THEN 0 ELSE S[k - 1] + fs[k].score
    IN  S[Len(fs)]

\* a is the mean of the scores of fs rounded to the nearest integer, a half
\* going up; 0 for the empty list
IsRoundedMean(a, fs) ==
    IF fs = <<>> THEN a = 0
    ELSE /\ 2 * Len(fs) * a <= 2 * TotalScore(fs) + Len(fs)
         /\ 2 * TotalScore(fs) + Len(fs) < 2 * Len(fs) * (a + 1)

\* C13: the summary is a function of the rule list and of the findings list
\* alone: totalRules is the number of rules, enabledRules the number of
\* enabled rules, each severity count the number of entries of findings with
\* that severity, averageRiskScore the rounded mean of the scores of
\* findings (0 when findings is empty); the entries of hygiene count nowhere.
Thm_C13_Summary ==
    Done =>
        LET s == results.summary
        IN  /\ s.totalRules = Len(rawRules)
            /\ s.enabledRules = Cardinality({i \in RulesAt : rawRules[i].enabled})
            /\ s.criticalFindings = NumberOf(results.findings, "CRITICAL")
            /\ s.highFindings = NumberOf(results.findings, "HIGH")
            /\ s.mediumFindings = NumberOf(results.findings, "MEDIUM")
            /\ s.lowFindings = NumberOf(results.findings, "LOW")
            /\ IsRoundedMean(s.averageRiskScore, results.findings)

\* findings of scores 100 and 85, whose mean 92.5 is rounded to 93, beside a
\* LOW hygiene entry that the summary does not count
Wit_C13_Summary ==
    /\ Done
    /\ Len(results.findings) = 2
    /\ results.findings[1].score = 100 /\ results.findings[2].score = 85
    /\ results.summary.averageRiskScore = 93
    /\ NumberOf(results.hygiene, "LOW") = 1
    /\ results.summary.lowFindings = 0
    /\ results.summary.enabledRules = 1 /\ results.summary.totalRules = 2

RiskCategories == {"Excessive Exposure", "Subnet Scope", "Insecure Port"}
HygieneCategories == {"Policy Hygiene", "Correlation Error"}

\* C14: every entry of findings has the category Excessive Exposure, Subnet
\* Scope or Insecure Port, every entry of hygiene has the category Policy
\* Hygiene or Correlation Error, and no entry of findings is an entry of
\* hygiene.
Thm_C14_Partition ==
    Done =>
        /\ \A k \in 1..Len(results.findings) : results.findings[k].category \in RiskCategories
        /\ \A k \in 1..Len(results.hygiene) : results.hygiene[k].category \in HygieneCategories
        /\ \A k \in 1..Len(results.findings) : \A l \in 1..Len(results.hygiene) :
              results.findings[k] # results.hygiene[l]

\* one result with a risk finding, a conflict and a latent-risk entry, the
\* last two for rules that have risk findings too
Wit_C14_Partition ==
    /\ Done
    /\ Len(rawRules) = 3
    /\ \E k \in 1..Len(results.findings) : results.findings[k].category = "Excessive Exposure"
    /\ \E k \in 1..Len(results.hygiene) :
          /\ results.hygiene[k].category = "Correlation Error"
          /\ FindingsFor(results.findings, results.hygiene[k].ruleId, "Excessive Exposure") # <<>>
    /\ \E k \in 1..Len(results.hygiene) :
          /\ results.hygiene[k].category = "Policy Hygiene"
          /\ results.hygiene[k].severity = "LOW"
          /\ FindingsFor(results.findings, results.hygiene[k].ruleId, "Excessive Exposure") # <<>>

\* the score band documented for a severity
InBand(f) ==
    /\ f.score \in 0..100
    /\ f.severity = "CRITICAL" => f.score = 100
    /\ f.severity = "HIGH" => f.score >= 80
    /\ f.severity = "MEDIUM" => f.score \in 50..70
    /\ f.severity \in {"LOW", "INFORMATIONAL"} => f.score < 40

\* C15: every entry of findings and of hygiene has a score in 0..100 that
\* lies in the band of its severity: CRITICAL 100, HIGH 80 or more, MEDIUM
\* 50 to 70, LOW and INFORMATIONAL below 40.
Cex_C15_ScoreBands ==
    Done => /\ \A k \in 1..Len(results.findings) : InBand(results.findings[k])
            /\ \A k \in 1..Len(results.hygiene) : InBand(results.hygiene[k])

\* C17: a call of analyzeRules leaves the rule list and the port policy as
\* they were (the same entries, in the same order, with the same field
\* values), and the rules field of what it returns is the rule list it was
\* given, in its order.
Thm_C17_InputsUnchanged ==
    [][(pc = "idle" /\ pc' = "done") =>
          /\ rawRules' = rawRules
          /\ portSettings' = portSettings
          /\ results'.rules = rawRules]_vars

\* after the call on a list of three rules that is not its own reverse and
\* brings findings and hygiene entries
Wit_C17_InputsUnchanged ==
    /\ Done
    /\ Len(rawRules) = 3
    /\ rawRules[1] # rawRules[3]
    /\ results.rules = rawRules
    /\ results.findings # <<>> /\ results.hygiene # <<>>
    /\ portSettings = DefaultPolicy

(***************************************************************************)
(* Properties of the call as a whole                                       *)
(***************************************************************************)
\* C18: for every rule list whose fields are texts, however malformed, and
\* every port policy, the call of analyzeRules ends and returns a result; no
\* call ends in an error.
Cex_C18_Total == pc \in {"idle", "done"}

(***************************************************************************)
(* Properties of the scope parser                                          *)
(***************************************************************************)
Scoped == pc = "scope"

\* the text after the first "/" of a text that holds one
RECURSIVE AfterSlash(_)
AfterSlash(s) == IF Head(s) = "/" THEN Tail(s) ELSE AfterSlash(Tail(s))

\* an unsigned integer: one digit or more and nothing else
IsUnsigned(s) == s # <<>> /\ \A k \in 1..Len(s) : s[k] \in Digits

\* C19: with the input trimmed and lower-cased, the scope parser returns 0
\* for any, all, * and 0.0.0.0/0; for a text that holds "/" it returns the
\* number after the "/" when the text after the "/" is an unsigned integer
\* and 32 when it is not; for a text without "/" it returns 32.
Cex_C19_ScopeParser ==
    Scoped =>
        LET clean == toLowerCase(trim(input))
        IN  IF clean \in {T_any, T_all, T_star, T_zero} THEN output = <<0>>
            ELSE IF \E k \in 1..Len(clean) : clean[k] = "/"
                 THEN IF IsUnsigned(AfterSlash(clean))
                      THEN output = <<DigitsValue(AfterSlash(clean), 0)>>
                      ELSE output = <<32>>
            ELSE output = <<32>>

\* C20: for every input text the scope parser returns an integer in 0..32.
Cex_C20_ScopeRange == Scoped => output[1] \in 0..32

(***************************************************************************)
(* Properties of the port parser                                           *)
(***************************************************************************)
Ported == pc = "ports"

IsWildcardText(text) == toLowerCase(trim(text)) \in {T_any, T_all, T_star, T_full}

\* the tokens of a text: its longest runs of characters that are neither a
\* comma nor white space
RECURSIVE FirstRun(_)
FirstRun(s) == IF s = <<>> \/ IsListSep(Head(s)) THEN <<>> ELSE <<Head(s)>> \o FirstRun(Tail(s))

RECURSIVE TokensOf(_)
TokensOf(s) ==
    IF s = <<>> THEN <<>>
    ELSE IF IsListSep(Head(s)) THEN TokensOf(Tail(s))
    ELSE <<FirstRun(s)>> \o TokensOf(SubSeq(s, Len(FirstRun(s)) + 1, Len(s)))

\* the text before the first "-" and the text after it
RECURSIVE BeforeDash(_)
BeforeDash(s) == IF s = <<>> \/ Head(s) = "-" THEN <<>> ELSE <<Head(s)>> \o BeforeDash(Tail(s))

AfterDash(s) == SubSeq(s, Len(BeforeDash(s)) + 2, Len(s))

HasDash(s) == \E k \in 1..Len(s) : s[k] = "-"

FromTo(a, b) == [i \in 1..(IF a <= b THEN b - a + 1 ELSE 0) |-> a + i - 1]

\* the digits a text starts with, after a + if there is one
StartDigits(s) == DigitRun(IF s # <<>> /\ Head(s) = "+" THEN Tail(s) ELSE s)

\* an integer and nothing else: digits, after a + if there is one
IsInteger(s) == IsUnsigned(IF s # <<>> /\ Head(s) = "+" THEN Tail(s) ELSE s)

\* what a token contributes when an integer is a text of digits and nothing
\* else
StrictToken(t) ==
    IF HasDash(t)
    THEN IF IsInteger(BeforeDash(t)) /\ IsInteger(AfterDash(t))
         THEN FromTo(DigitsValue(StartDigits(BeforeDash(t)), 0),
                     DigitsValue(StartDigits(AfterDash(t)), 0))
         ELSE <<>>
    ELSE IF IsInteger(t) THEN <<DigitsValue(StartDigits(t), 0)>> ELSE <<>>

\* what a token contributes when an integer is read from the start of a
\* text, whatever follows its digits
LenientToken(t) ==
    IF HasDash(t)
    THEN LET a == StartDigits(BeforeDash(t))
             b == StartDigits(BeforeDash(AfterDash(t)))
         IN  IF a # <<>> /\ b # <<>> THEN FromTo(DigitsValue(a, 0), DigitsValue(b, 0)) ELSE <<>>
    ELSE IF StartDigits(t) # <<>> THEN <<DigitsValue(StartDigits(t), 0)>> ELSE <<>>

RECURSIVE StrictPorts(_)
StrictPorts(tokens) ==
    IF tokens = <<>> THEN <<>> ELSE StrictToken(Head(tokens)) \o StrictPorts(Tail(tokens))

RECURSIVE LenientPorts(_)
LenientPorts(tokens) ==
    IF tokens = <<>> THEN <<>> ELSE LenientToken(Head(tokens)) \o LenientPorts(Tail(tokens))

Thm_C22_EmptyAndWildcard ==
    Done => \A i \in RulesAt :
        LET r == rawRules[i]
        IN  /\ r.destinationPort = T_empty =>
                  /\ parsePorts(r.destinationPort) = <<>>
                  /\ Insecure(r) = <<>>
                  /\ \A k \in 1..Len(Exposure(r)) :
                        /\ Exposure(r)[k].severity # "CRITICAL"
                        /\ SrcScope(r) = 0 \/ DstScope(r) = 0 \/ r.protocol = "ANY"
                  /\ LatentOf(i) # <<>> => SrcScope(r) = 0
            /\ IsWildcardText(r.destinationPort) =>
                  /\ parsePorts(r.destinationPort) = <<AnyPort>>
                  /\ r.action = "ALLOW" => Len(Exposure(r)) = 1
                  /\ (r.action = "ALLOW" /\ SrcScope(r) = 0 /\ DstScope(r) = 0)
                        => Exposure(r)[1].severity = "CRITICAL"

\* an ALLOW rule from any to any with an empty port text: HIGH/85, not
\* CRITICAL, and no Insecure Port finding
Wit_C22_EmptyAndWildcard ==
    /\ Done
    /\ Len(rawRules) = 1
    /\ rawRules[1].action = "ALLOW"
    /\ rawRules[1].source = T_any /\ rawRules[1].destination = T_any
    /\ rawRules[1].destinationPort = T_empty
    /\ Len(Exposure(rawRules[1])) = 1
    /\ Exposure(rawRules[1])[1].score = 85
    /\ Insecure(rawRules[1]) = <<>>

\* C23: the result of the port parser holds the wildcard sentinel only when
\* the whole text, trimmed and lower-cased, is a wildcard token, and is then
\* the list of the sentinel alone; every number that comes from a token (a
\* single number or a range) is 0 or more, so it is never the sentinel.
Thm_C23_SentinelDistinct ==
    Ported =>
        /\ IsWildcardText(input) => output = <<AnyPort>>
        /\ ~IsWildcardText(input) => \A k \in 1..Len(output) : output[k] >= 0 /\ output[k] # AnyPort
        /\ (\E k \in 1..Len(output) : output[k] = AnyPort) <=> IsWildcardText(input)

\* the text -1 and the token any inside a list bring no sentinel
Wit_C23_SentinelDistinct ==
    /\ Ported
    /\ input = T_neg1 \o <<",">> \o T_any
    /\ output = <<>>

(***************************************************************************)
(* Shadowing and the universal tokens of the parsers                       *)
(***************************************************************************)
\* the earlier rule p is equal or broader than r on every compared
\* dimension, a field being broad when its parser classifies it as universal
EqualOrUniversal(p, r) ==
    /\ (p.source = r.source \/ getCidrSize(p.source) = 0)
    /\ (p.destination = r.destination \/ getCidrSize(p.destination) = 0)
    /\ (p.protocol = r.protocol \/ p.protocol = "ANY")
    /\ (p.destinationPort = r.destinationPort \/ parsePorts(p.destinationPort) = <<AnyPort>>)

\* C24: an enabled earlier rule of the same action whose source or
\* destination is any, all, * or 0.0.0.0/0 (any letter case, white space
\* around) or whose destination port is any, all, * or 0-65535 counts as
\* equal or broader on that dimension, as the token any does: the enabled
\* later rule is flagged as shadowed.
Cex_C24_UniversalTokens ==
    Done => \A j \in RulesAt : \A i \in 1..(j - 1) :
        (/\ rawRules[i].enabled /\ rawRules[j].enabled
         /\ rawRules[i].action = rawRules[j].action
         /\ EqualOrUniversal(rawRules[i], rawRules[j])) => ShadowOf(j) # <<>>

(***************************************************************************)
(* Properties of the application                                           *)
(***************************************************************************)
\* C25: after any sequence of imports and settings applications the results
\* of the application are analyzeRules applied to the current rule list
\* (the rules of the last import that arrived) and the current port policy
\* (the last one applied), and they are null exactly when the rule list is
\* empty.
Thm_C25_FreshResults ==
    /\ Len(rawRules) > 0 => results = analyzeRules(rawRules, portSettings)
    /\ results = NoResults <=> Len(rawRules) = 0

\* three imported rules under the one-entry policy, which only a settings
\* application brings: the range 21-23 of the first rule has no Insecure
\* Port finding, as under that policy
Wit_C25_FreshResults ==
    /\ Len(rawRules) = 3
    /\ portSettings = <<Setting(445, "CRITICAL", TRUE)>>
    /\ results # NoResults
    /\ results.rules = rawRules
    /\ results.findings # <<>>
    /\ FindingsFor(results.findings, 1, "Insecure Port") = <<>>
    /\ activeTab = "dashboard"

\* C30: whenever the tab shown is dashboard, findings, hygiene or rules, the
\* rule list is not empty and the results exist.
Cex_C30_AnalysisTabs ==
    activeTab \in AnalysisTabs => (Len(rawRules) > 0 /\ results # NoResults)

(***************************************************************************)
(* C26: the port policy holds at most one entry per port.  From a list     *)
(* without two entries of one port, the list being edited and the list     *)
(* applied never hold two entries of one port; addCustomPort with a port   *)
(* in the list, with a text that is no number or with an empty label       *)
(* leaves the list as it is; togglePort changes the enabled flag of the    *)
(* named port and nothing else; removePort removes the entry of the named  *)
(* port and nothing else.                                                  *)
(***************************************************************************)
NoDuplicatePorts(list) ==
    \A i, j \in 1..Len(list) : list[i].port = list[j].port => i = j

AddRejected(portText, label) ==
    \/ isNaN(parseInt(portText))
    \/ label = T_empty
    \/ Num(parseInt(portText)) \in PortsShown

OnlyFlagOf(port) ==
    /\ Len(currentSettings') = Len(currentSettings)
    /\ \A i \in 1..Len(currentSettings) :
        /\ currentSettings'[i].port = currentSettings[i].port
        /\ currentSettings'[i].criticality = currentSettings[i].criticality
        /\ (currentSettings'[i].enabled # currentSettings[i].enabled)
             <=> (currentSettings[i].port = port)

WithoutIndex(list, k) ==
    [i \in 1..(Len(list) - 1) |-> IF i < k THEN list[i] ELSE list[i + 1]]

OnlyEntryOf(port) ==
    \E k \in 1..Len(currentSettings) :
        /\ currentSettings[k].port = port
        /\ currentSettings' = WithoutIndex(currentSettings, k)

Thm_C26_OnePerPort ==
    /\ [](NoDuplicatePorts(currentSettings) /\ NoDuplicatePorts(portSettings))
    /\ [][/\ \A t \in FormPorts, l \in FormLabels :
               addCustomPort(t, l, "MEDIUM") /\ AddRejected(t, l)
                   => currentSettings' = currentSettings
          /\ \A port \in PortsShown :
               /\ togglePort(port) => OnlyFlagOf(port)
               /\ removePort(port) => OnlyEntryOf(port)]_vars

\* port 21 removed, port 80 switched on, port 8080 added, the list applied
Wit_C26_OnePerPort ==
    /\ currentSettings = <<Setting(80, "MEDIUM", TRUE), Setting(8080, "MEDIUM", TRUE)>>
    /\ portSettings = currentSettings

(***************************************************************************)
(* C27: the findings filter evaluates its clauses linearly.  A finding is  *)
(* shown if and only if it matches the quick search and the left-to-right  *)
(* fold of the clause results is true, clause i (from the second on)       *)
(* joined to the result so far by its own logicalOperator, no operator     *)
(* binding before another, the logicalOperator of the first clause         *)
(* ignored; with no clauses and an empty quick search every finding is     *)
(* shown; the findings shown are in descending order of score.             *)
(***************************************************************************)
Rendered == pc = "done"

\* the value of the first n clauses read from left to right
RECURSIVE LinearValue(_, _)
LinearValue(f, n) ==
    IF n = 0 THEN TRUE
    ELSE IF n = 1 THEN evaluateClause(f, filters.clauses[1], rawRules)
    ELSE IF filters.clauses[n].logicalOperator = "AND"
         THEN LinearValue(f, n - 1) /\ evaluateClause(f, filters.clauses[n], rawRules)
         ELSE LinearValue(f, n - 1) \/ evaluateClause(f, filters.clauses[n], rawRules)

ShouldShow(f) ==
    quickSearchMatch(f, filters.quickSearch) /\ LinearValue(f, Len(filters.clauses))

TimesIn(list, f) == Cardinality({k \in 1..Len(list) : list[k] = f})

Thm_C27_LinearFilter ==
    Rendered =>
        /\ \A k \in 1..Len(results.findings) :
             LET f == results.findings[k]
             IN  TimesIn(output, f) = IF ShouldShow(f) THEN TimesIn(results.findings, f) ELSE 0
        /\ \A k \in 1..Len(output) : TimesIn(results.findings, output[k]) > 0
        /\ \A k \in 1..(Len(output) - 1) : output[k].score >= output[k + 1].score
        /\ (filters = NoFilters => Len(output) = Len(results.findings))

\* rule 2 passes the first clause and fails the last: (A OR B) AND C hides
\* its finding, A OR (B AND C) would show it; the findings of rule 1 pass
\* and are shown with the higher score first
Wit_C27_LinearFilter ==
    /\ Rendered
    /\ filters.quickSearch = T_empty
    /\ Len(filters.clauses) = 3
    /\ filters.clauses[1].logicalOperator = "OR"
    /\ filters.clauses[2].logicalOperator = "OR"
    /\ filters.clauses[3].logicalOperator = "AND"
    /\ \E k \in 1..Len(results.findings) :
        /\ evaluateClause(results.findings[k], filters.clauses[1], rawRules)
        /\ ~evaluateClause(results.findings[k], filters.clauses[3], rawRules)
        /\ TimesIn(output, results.findings[k]) = 0
    /\ Len(output) >= 2
    /\ output[1].score > output[2].score
    /\ \E i, j \in 1..Len(results.findings) :
        /\ i < j
        /\ output[1] = results.findings[j]
        /\ output[2] = results.findings[i]

(***************************************************************************)
(* C28: the enabled flag of a rule has no influence on the findings list,  *)
(* the severity counts or the average score.  For every analysed rule list *)
(* and policy and every position, the analysis of the list with the        *)
(* enabled flag at that position flipped has the same findings, the same   *)
(* criticalFindings, highFindings, mediumFindings and lowFindings and the  *)
(* same averageRiskScore; a disabled ALLOW rule that is universal in       *)
(* source, destination and service has its CRITICAL finding of score 100.  *)
(***************************************************************************)
FlipEnabled(rules, i) == [rules EXCEPT ![i].enabled = ~@]

HeadlineOf(res) ==
    <<res.findings, res.summary.criticalFindings, res.summary.highFindings,
      res.summary.mediumFindings, res.summary.lowFindings, res.summary.averageRiskScore>>

Thm_C28_EnabledIgnored ==
    pc = "done" =>
        \A i \in 1..Len(rawRules) :
            /\ HeadlineOf(results)
                 = HeadlineOf(analyzeRules(FlipEnabled(rawRules, i), portSettings))
            /\ (~rawRules[i].enabled /\ isAllow(rawRules[i]) /\ IsAnyAny(rawRules[i]))
                 => \E k \in 1..Len(results.findings) :
                      /\ results.findings[k].ruleId = rawRules[i].id
                      /\ results.findings[k].severity = "CRITICAL"
                      /\ results.findings[k].score = 100

\* a single disabled ALLOW any/any/any rule: no rule is enabled, one finding
\* is critical and the average score is 100
Wit_C28_EnabledIgnored ==
    /\ pc = "done"
    /\ Len(rawRules) = 1
    /\ ~rawRules[1].enabled /\ isAllow(rawRules[1]) /\ IsAnyAny(rawRules[1])
    /\ results.summary.enabledRules = 0
    /\ results.summary.criticalFindings = 1
    /\ results.summary.averageRiskScore = 100

(***************************************************************************)
(* C29: the rule at a position contributes at most one shadowing entry, at *)
(* most one conflict entry and at most one latent-risk entry to the        *)
(* hygiene list; a latent-risk entry (of a disabled rule) never comes with *)
(* a shadowing or conflict entry (of an enabled rule) of the same          *)
(* position, so a rule contributes at most two entries; the entries are in *)
(* rule order, and the shadowing entry of a rule is before its conflict    *)
(* entry.  The rules carry their position as id.                           *)
(***************************************************************************)
IsShadowing(h) == h.category = "Policy Hygiene" /\ h.severity = "INFORMATIONAL"

IsConflict(h) == h.category = "Correlation Error"

IsLatent(h) == h.category = "Policy Hygiene" /\ h.severity = "LOW"

\* the places in the hygiene list of the entries of kind Is for position i
EntriesOf(i, Is(_)) ==
    {k \in 1..Len(results.hygiene) :
        results.hygiene[k].ruleId = rawRules[i].id /\ Is(results.hygiene[k])}

Thm_C29_HygienePerRule ==
    pc = "done" =>
        /\ \A k \in 1..Len(results.hygiene) :
             IsShadowing(results.hygiene[k]) \/ IsConflict(results.hygiene[k])
               \/ IsLatent(results.hygiene[k])
        /\ \A i \in 1..Len(rawRules) :
            /\ Cardinality(EntriesOf(i, IsShadowing)) <= 1
            /\ Cardinality(EntriesOf(i, IsConflict)) <= 1
            /\ Cardinality(EntriesOf(i, IsLatent)) <= 1
            /\ EntriesOf(i, IsLatent) # {}
                 => /\ ~rawRules[i].enabled
                    /\ EntriesOf(i, IsShadowing) = {} /\ EntriesOf(i, IsConflict) = {}
            /\ EntriesOf(i, IsShadowing) \cup EntriesOf(i, IsConflict) # {}
                 => rawRules[i].enabled
            /\ Cardinality({k \in 1..Len(results.hygiene) :
                              results.hygiene[k].ruleId = rawRules[i].id}) <= 2
            /\ \A s \in EntriesOf(i, IsShadowing), c \in EntriesOf(i, IsConflict) : s < c
        /\ \A k \in 1..(Len(results.hygiene) - 1) :
             results.hygiene[k].ruleId <= results.hygiene[k + 1].ruleId

\* the third rule is shadowed by one rule and in conflict with another: its
\* two entries end the list, the shadowing one first, behind the entry of
\* the second rule
Wit_C29_HygienePerRule ==
    /\ pc = "done"
    /\ Len(rawRules) = 3
    /\ Len(results.hygiene) = 3
    /\ results.hygiene[1].ruleId = 2
    /\ results.hygiene[2].ruleId = 3 /\ IsShadowing(results.hygiene[2])
    /\ results.hygiene[3].ruleId = 3 /\ IsConflict(results.hygiene[3])

====
